---- MODULE Spec2Model ----
(***************************************************************************)
(* CO2 emission calculator (RakellM/DIO-Project-CO2_Calculator).           *)
(*                                                                         *)
(* The repository holds two parallel implementations of the calculation    *)
(* engine: the object literal `var Calculator = {...}` and the module      *)
(* pattern `const Calculator = (function () {...})()`.  The variable impl  *)
(* says which of the two is loaded ("var" or "iife").                      *)
(*                                                                         *)
(* JavaScript numbers are IEEE-754 binary64 values.  They are modelled     *)
(* bit-exactly: a finite number is sign * m * 2^e with a 53-bit mantissa   *)
(* m, kept as a little-endian sequence of 15-bit limbs, and every          *)
(* arithmetic operation rounds to nearest, ties to even, as the hardware   *)
(* does.  Exponent overflow and subnormals are out of reach of the bounded *)
(* inputs and are not modelled.                                            *)
(***************************************************************************)
EXTENDS Integers, Sequences, FiniteSets, TLC

(***************************************************************************)
(* Natural numbers of arbitrary size: little-endian limb sequences, no     *)
(* most-significant zero limb, <<>> is zero.                               *)
(***************************************************************************)
Base == 2 ^ 15

RECURSIVE BNorm(_)
BNorm(a) ==
    IF a = <<>> THEN <<>>
    ELSE IF a[Len(a)] = 0 THEN BNorm(SubSeq(a, 1, Len(a) - 1))
    ELSE a

RECURSIVE BFromInt(_)
BFromInt(n) ==
    IF n = 0 THEN <<>> ELSE <<n % Base>> \o BFromInt(n \div Base)

RECURSIVE BToInt(_)
BToInt(a) ==
    IF a = <<>> THEN 0 ELSE a[1] + Base * BToInt(Tail(a))

RECURSIVE BAddC(_, _, _)
BAddC(a, b, c) ==
    IF a = <<>> /\ b = <<>> THEN (IF c = 0 THEN <<>> ELSE <<c>>)
    ELSE LET x == IF a = <<>> THEN 0 ELSE a[1]
             y == IF b = <<>> THEN 0 ELSE b[1]
             s == x + y + c
         IN  <<s % Base>> \o BAddC(IF a = <<>> THEN <<>> ELSE Tail(a),
                                   IF b = <<>> THEN <<>> ELSE Tail(b),
                                   s \div Base)

BAdd(a, b) == BAddC(a, b, 0)

\* a - b for a >= b
RECURSIVE BSubC(_, _, _)
BSubC(a, b, c) ==
    IF a = <<>> THEN <<>>
    ELSE LET y == IF b = <<>> THEN 0 ELSE b[1]
             s == a[1] - y - c
         IN  <<IF s < 0 THEN s + Base ELSE s>>
                 \o BSubC(Tail(a), IF b = <<>> THEN <<>> ELSE Tail(b),
                          IF s < 0 THEN 1 ELSE 0)

BSub(a, b) == BNorm(BSubC(a, b, 0))

\* -1, 0, 1 as a < b, a = b, a > b
RECURSIVE BCmpAt(_, _, _)
BCmpAt(a, b, i) ==
    IF i = 0 THEN 0
    ELSE IF a[i] < b[i] THEN -1
    ELSE IF a[i] > b[i] THEN 1
    ELSE BCmpAt(a, b, i - 1)

BCmp(a, b) ==
    IF Len(a) < Len(b) THEN -1
    ELSE IF Len(a) > Len(b) THEN 1
    ELSE BCmpAt(a, b, Len(a))

\* a * k + c for 0 <= k, c < Base
RECURSIVE BMulSmallC(_, _, _)
BMulSmallC(a, k, c) ==
    IF a = <<>> THEN (IF c = 0 THEN <<>> ELSE <<c>>)
    ELSE LET p == a[1] * k + c
         IN  <<p % Base>> \o BMulSmallC(Tail(a), k, p \div Base)

BMulSmall(a, k) == IF k = 0 THEN <<>> ELSE BMulSmallC(a, k, 0)

RECURSIVE BMul(_, _)
BMul(a, b) ==
    IF a = <<>> \/ b = <<>> THEN <<>>
    ELSE LET rest == BMul(a, Tail(b))
         IN  BAdd(BMulSmall(a, b[1]),
                  IF rest = <<>> THEN <<>> ELSE <<0>> \o rest)

\* quotient and remainder of a by 0 < k <= Base
RECURSIVE BDivSmallR(_, _)
BDivSmallR(a, k) ==
    IF a = <<>> THEN [q |-> <<>>, r |-> 0]
    ELSE LET hi  == BDivSmallR(Tail(a), k)
             cur == hi.r * Base + a[1]
         IN  [q |-> <<cur \div k>> \o hi.q, r |-> cur % k]

BDivSmall(a, k) == BNorm(BDivSmallR(a, k).q)

RECURSIVE IntBitLen(_)
IntBitLen(n) == IF n = 0 THEN 0 ELSE 1 + IntBitLen(n \div 2)

LimbBits == IntBitLen(Base) - 1

BitLen(a) ==
    IF a = <<>> THEN 0 ELSE LimbBits * (Len(a) - 1) + IntBitLen(a[Len(a)])

Zeros(n) == [i \in 1..n |-> 0]

\* a * 2^n
BShl(a, n) ==
    IF a = <<>> THEN <<>>
    ELSE BMulSmall(Zeros(n \div LimbBits) \o a, 2 ^ (n % LimbBits))

\* floor(a / 2^n)
BShr(a, n) ==
    IF n \div LimbBits >= Len(a) THEN <<>>
    ELSE BDivSmall(SubSeq(a, n \div LimbBits + 1, Len(a)), 2 ^ (n % LimbBits))

BIsOdd(a) == a # <<>> /\ a[1] % 2 = 1

BLimb(a, i) == IF i <= Len(a) THEN a[i] ELSE 0

\* the largest d with b * d <= cur, counting down from the estimate qhat >= d
RECURSIVE BDivDigitFit(_, _, _)
BDivDigitFit(cur, b, qhat) ==
    IF BCmp(BMulSmall(b, qhat), cur) > 0 THEN BDivDigitFit(cur, b, qhat - 1)
    ELSE qhat

BDivEstimate(top, btop) ==
    IF top \div btop < Base THEN top \div btop ELSE Base - 1

\* floor(cur / b) for cur < b * Base and b with its top bit set: the two top
\* limbs of cur divided by the top limb of b are at most 2 too large
BDivDigit(cur, b) ==
    BDivDigitFit(cur, b,
                 BDivEstimate(BLimb(cur, Len(b) + 1) * Base + BLimb(cur, Len(b)),
                              b[Len(b)]))

BDivStep(cur, b, d, q) == [q |-> <<d>> \o q, r |-> BSub(cur, BMulSmall(b, d))]

BDivCur(cur, b, q) == BDivStep(cur, b, BDivDigit(cur, b), q)

\* schoolbook long division, one limb of the dividend at a time, most
\* significant first: h is the quotient and remainder of the limbs above.
\* A dividend of fewer limbs than b is its own remainder.
BDivLimb(h, limb, b) ==
    IF h.r = <<>> /\ limb = 0 THEN [q |-> <<0>> \o h.q, r |-> <<>>]
    ELSE BDivCur(<<limb>> \o h.r, b, h.q)

RECURSIVE BDivLimbs(_, _)
BDivLimbs(a, b) ==
    IF Len(a) < Len(b) THEN [q |-> <<>>, r |-> a]
    ELSE BDivLimb(BDivLimbs(Tail(a), b), a[1], b)

BDivShifted(h, s) == [q |-> BNorm(h.q), r |-> BShr(h.r, s)]

BDivScaled(a, b, s) == BDivShifted(BDivLimbs(BShl(a, s), BShl(b, s)), s)

\* quotient and remainder of a by b > 0: both scaled so that the top bit of
\* the top limb of b is set
BDivMod(a, b) == BDivScaled(a, b, LimbBits - IntBitLen(b[Len(b)]))

(***************************************************************************)
(* JavaScript Number values.  A finite number is [k |-> "num"] with value  *)
(* (neg ? -1 : 1) * m * 2^e, where m is zero or has exactly MantBits bits, *)
(* so equal numbers are equal records.  The sign of zero is not kept.      *)
(***************************************************************************)
MantBits == 53

Zero == [k |-> "num", neg |-> FALSE, m |-> <<>>, e |-> 0]
NaN == [k |-> "nan", neg |-> FALSE, m |-> <<>>, e |-> 0]
Infinity == [k |-> "inf", neg |-> FALSE, m |-> <<>>, e |-> 0]

\* a mantissa q of MantBits or MantBits + 1 bits brought to MantBits bits
FRenorm(neg, q, E) ==
    IF BitLen(q) > MantBits
    THEN [k |-> "num", neg |-> neg, m |-> BShr(q, 1), e |-> E + 1]
    ELSE [k |-> "num", neg |-> neg, m |-> q, e |-> E]

\* q rounded up or not: c compares the bits cut off with one half
FRoundUp(neg, q, c, E) ==
    FRenorm(neg, IF c = 1 \/ (c = 0 /\ BIsOdd(q)) THEN BAdd(q, <<1>>) ELSE q, E)

\* the low n bits of M cut off: q are the bits kept
FRoundCut(neg, M, q, n, E) ==
    FRoundUp(neg, q, BCmp(BSub(M, BShl(q, n)), BShl(<<1>>, n - 1)), E + n)

\* M of L > 0 bits brought to MantBits bits
FRoundLen(neg, M, L, E) ==
    IF L <= MantBits
    THEN [k |-> "num", neg |-> neg, m |-> BShl(M, MantBits - L),
          e |-> E - (MantBits - L)]
    ELSE FRoundCut(neg, M, BShr(M, L - MantBits), L - MantBits, E)

\* the binary64 value nearest to M * 2^E, ties to even
FRound(neg, M, E) ==
    IF M = <<>> THEN Zero ELSE FRoundLen(neg, M, BitLen(M), E)

\* qr the quotient and remainder of N * 2^sh by D: one extra low bit records
\* a non-zero remainder (sticky bit)
FQuotSticky(neg, qr, E) ==
    FRound(neg, BAdd(BAdd(qr.q, qr.q), IF qr.r = <<>> THEN <<>> ELSE <<1>>), E)

FQuotShifted(neg, N, D, sh, E) ==
    FQuotSticky(neg, BDivMod(BShl(N, sh), D), E - sh - 1)

\* the left shift of an lenN-bit N that gives N / D at least MantBits + 2 bits
FQuotShift(lenN, lenD) ==
    IF lenN < MantBits + 3 + lenD THEN MantBits + 3 + lenD - lenN ELSE 0

\* the binary64 value nearest to N / D for bignum N >= 0, D > 0
FQuot(neg, N, D, E) ==
    IF N = <<>> THEN Zero
    ELSE FQuotShifted(neg, N, D,
                      FQuotShift(BitLen(N), BitLen(D)), E)

\* the Number an integer literal denotes, |n| < 2^31
FromInt(n) == FRound(n < 0, BFromInt(IF n < 0 THEN -n ELSE n), 0)

\* the Number a decimal literal n / scale denotes (Number("1.34"), parseFloat)
FromDec(n, scale) ==
    FQuot(n < 0, BFromInt(IF n < 0 THEN -n ELSE n), BFromInt(scale), 0)

FIsZero(x) == x.k = "num" /\ x.m = <<>>

FNeg(x) == IF x.k = "num" /\ x.m # <<>> THEN [x EXCEPT !.neg = ~x.neg] ELSE x

\* x * y
FMul(x, y) ==
    IF x.k = "nan" \/ y.k = "nan" THEN NaN
    ELSE FRound(x.neg # y.neg, BMul(x.m, y.m), x.e + y.e)

\* x / y for finite y # 0
FDiv(x, y) ==
    IF x.k = "nan" \/ y.k = "nan" THEN NaN
    ELSE FQuot(x.neg # y.neg, x.m, y.m, x.e - y.e)

\* -1, 0, 1 as x < y, x = y, x > y, for finite x and y
FCmp(x, y) ==
    IF FIsZero(x) /\ FIsZero(y) THEN 0
    ELSE IF FIsZero(x) THEN (IF y.neg THEN 1 ELSE -1)
    ELSE IF FIsZero(y) THEN (IF x.neg THEN -1 ELSE 1)
    ELSE IF x.neg # y.neg THEN (IF x.neg THEN -1 ELSE 1)
    ELSE LET lo == IF x.e < y.e THEN x.e ELSE y.e
             c  == BCmp(BShl(x.m, x.e - lo), BShl(y.m, y.e - lo))
         IN  IF x.neg THEN -c ELSE c

\* X - Y or Y - X, whichever is not negative, with its sign
FDiff(xneg, X, yneg, Y, c, E) ==
    FRound(IF c >= 0 THEN xneg ELSE yneg,
           IF c >= 0 THEN BSub(X, Y) ELSE BSub(Y, X), E)

\* x + y for mantissas X and Y at the common exponent E
FAddAligned(xneg, X, yneg, Y, E) ==
    IF xneg = yneg THEN FRound(xneg, BAdd(X, Y), E)
    ELSE FDiff(xneg, X, yneg, Y, BCmp(X, Y), E)

FAddAt(x, y, lo) ==
    FAddAligned(x.neg, BShl(x.m, x.e - lo), y.neg, BShl(y.m, y.e - lo), lo)

\* x + y for finite x and y
FAdd(x, y) ==
    IF x.k = "nan" \/ y.k = "nan" THEN NaN
    ELSE IF FIsZero(x) THEN y
    ELSE IF FIsZero(y) THEN x
    ELSE FAddAt(x, y, IF x.e < y.e THEN x.e ELSE y.e)

FSub(x, y) == FAdd(x, FNeg(y))

\* floor(|x| * scale + 1/2) as an integer, for finite x and 0 < scale <= Base
RoundHalfUpMag(x, scale) ==
    IF FIsZero(x) THEN 0
    ELSE LET M == BMulSmall(x.m, scale)
         IN  IF x.e >= 0 THEN BToInt(BShl(M, x.e))
             ELSE BToInt(BShr(BAdd(BAdd(M, M), BShl(<<1>>, -x.e)), 1 - x.e))

\* ceil(|x| - 1/2) as an integer, for finite x
RoundHalfDownMag(x) ==
    IF FIsZero(x) THEN 0
    ELSE IF x.e >= 0 THEN BToInt(BShl(x.m, x.e))
    ELSE LET A == BAdd(x.m, x.m)
             H == BShl(<<1>>, -x.e)
         IN  IF BCmp(A, H) <= 0 THEN 0
             ELSE LET d == BSub(A, H)
                      q == BShr(d, 1 - x.e)
                  IN  BToInt(q) + (IF BShl(q, 1 - x.e) = d THEN 0 ELSE 1)

\* Math.round(x): the integer floor(x + 1/2)
MathRoundInt(x) ==
    IF x.neg THEN -RoundHalfDownMag(x) ELSE RoundHalfUpMag(x, 1)

MathRound(x) == IF x.k = "nan" THEN NaN ELSE FromInt(MathRoundInt(x))

\* Number(x.toFixed(2)): toFixed picks the integer n with n / 100 nearest to
\* the exact value of |x|, the larger n on a tie, and keeps the sign
ToFixed2Int(x) ==
    IF x.neg THEN -RoundHalfUpMag(x, 100) ELSE RoundHalfUpMag(x, 100)

ToFixed2(x) == IF x.k = "nan" THEN NaN ELSE FromDec(ToFixed2Int(x), 100)

\* Number(x.toFixed(4))
ToFixed4Int(x) ==
    IF x.neg THEN -RoundHalfUpMag(x, 10000) ELSE RoundHalfUpMag(x, 10000)

ToFixed4(x) == IF x.k = "nan" THEN NaN ELSE FromDec(ToFixed4Int(x), 10000)

(***************************************************************************)
(* CONFIG: the static tables.                                              *)
(***************************************************************************)
\* Object.keys(CONFIG.EMISSION_FACTORS), in declaration order
Modes == <<"bicycle", "car", "bus", "truck">>

ModeSet == {Modes[i] : i \in 1..Len(Modes)}

\* the factor literals, in thousandths of a kg CO2 per km
FactorMilli == [bicycle |-> 0, car |-> 120, bus |-> 89, truck |-> 960]

\* the Number each factor literal denotes
EMISSION_FACTORS == [mode \in ModeSet |-> FromDec(FactorMilli[mode], 1000)]

\* CONFIG.CARBON_CREDIT
CARBON_CREDIT ==
    [KG_PER_CREDIT |-> FromInt(1000),
     PRICE_MIN_USD |-> FromInt(50),
     PRICE_MAX_USD |-> FromInt(150)]

\* names every object inherits from Object.prototype: CONFIG.EMISSION_FACTORS[name]
\* is a function, not undefined, and hasOwnProperty(name) is false
InheritedNames == {"toString"}

(***************************************************************************)
(* Calculator, object literal (var Calculator = {...}).                    *)
(* A call returns [err |-> "", val |-> result] or, when it throws,         *)
(* [err |-> message, val |-> ...].                                         *)
(***************************************************************************)
Return(v) == [err |-> "", val |-> v]
Throw(msg) == [err |-> msg, val |-> Zero]

VarCalculateEmission(distanceKm, transportMode) ==
    IF transportMode \notin ModeSet \cup InheritedNames
        \/ FCmp(distanceKm, Zero) <= 0
    THEN Return(Zero)
    ELSE IF transportMode \in InheritedNames
    THEN Return(NaN)          \* number * function is NaN, NaN.toFixed(2) is "NaN"
    ELSE Return(ToFixed2(FMul(distanceKm, EMISSION_FACTORS[transportMode])))

(***************************************************************************)
(* Calculator, module pattern (const Calculator = (function () {...})()).  *)
(***************************************************************************)
InvalidDistance == "Invalid distance. Must be a positive number."
UnknownMode == "Unknown transport mode"

\* Round2 with the rounding step forgotten
Round2Unrounded(x) == x

\* Math.round(x * 100) / 100
Round2(x) == FDiv(MathRound(FMul(x, FromInt(100))), FromInt(100))

\* IifeCalculateEmission with the distance guard written distanceKm < 0
IifeCalculateEmissionAcceptingZero(distanceKm, transportMode) ==
    IF FCmp(distanceKm, Zero) < 0 THEN Throw(InvalidDistance)
    ELSE IF transportMode \notin ModeSet THEN Throw(UnknownMode)
    ELSE Return(Round2(FMul(distanceKm, EMISSION_FACTORS[transportMode])))

IifeCalculateEmission(distanceKm, transportMode) ==
    IF FCmp(distanceKm, Zero) <= 0 THEN Throw(InvalidDistance)
    ELSE IF transportMode \notin ModeSet THEN Throw(UnknownMode)
    ELSE Return(Round2(FMul(distanceKm, EMISSION_FACTORS[transportMode])))

(***************************************************************************)
(* Array.prototype.sort with the comparator a.emission - b.emission.  The  *)
(* sort is stable (ECMAScript 2019; insertion sort for short arrays in     *)
(* older engines): elements that compare equal keep their order.           *)
(***************************************************************************)
\* InsertByEmission with an unstable comparison: x goes in front of its equals
RECURSIVE InsertByEmissionBeforeEquals(_, _)
InsertByEmissionBeforeEquals(s, x) ==
    IF s = <<>> THEN <<x>>
    ELSE IF FCmp(s[Len(s)].emission, x.emission) < 0 THEN Append(s, x)
    ELSE Append(InsertByEmissionBeforeEquals(SubSeq(s, 1, Len(s) - 1), x),
                s[Len(s)])

\* x put behind every element of the sorted sequence s that is not greater
RECURSIVE InsertByEmission(_, _)
InsertByEmission(s, x) ==
    IF s = <<>> THEN <<x>>
    ELSE IF FCmp(s[Len(s)].emission, x.emission) <= 0 THEN Append(s, x)
    ELSE Append(InsertByEmission(SubSeq(s, 1, Len(s) - 1), x), s[Len(s)])

\* SortByEmission with the sort call left out
SortByEmissionUnsorted(s) == s

RECURSIVE SortByEmission(_)
SortByEmission(s) ==
    IF s = <<>> THEN <<>>
    ELSE InsertByEmission(SortByEmission(SubSeq(s, 1, Len(s) - 1)), s[Len(s)])

(***************************************************************************)
(* calculateAllModes.  An entry is [mode, emission, percentageVsCar]; the  *)
(* label, icon and colour the module-pattern variant copies from           *)
(* CONFIG.TRANSPORT_MODES are presentation data and left out.              *)
(***************************************************************************)
VarPercentageVsCar(emission, carEmission) ==
    IF FCmp(carEmission, Zero) > 0
    THEN ToFixed2(FMul(FDiv(emission, carEmission), FromInt(100)))
    ELSE ToFixed2(Zero)

VarEntry(distanceKm, mode, carEmission) ==
    LET emission == VarCalculateEmission(distanceKm, mode).val
    IN  [mode |-> mode, emission |-> emission,
         percentageVsCar |-> VarPercentageVsCar(emission, carEmission)]

VarCalculateAllModes(distanceKm) ==
    LET carEmission == VarCalculateEmission(distanceKm, "car").val
    IN  Return(SortByEmission(
            [i \in 1..Len(Modes) |-> VarEntry(distanceKm, Modes[i], carEmission)]))

IifePercentageVsCar(emission, carEmission) ==
    IF FIsZero(carEmission)
    THEN (IF FIsZero(emission) THEN FromInt(100) ELSE Infinity)
    ELSE MathRound(FMul(FDiv(emission, carEmission), FromInt(100)))

IifeEntry(distanceKm, mode, carEmission) ==
    LET emission == IifeCalculateEmission(distanceKm, mode).val
    IN  [mode |-> mode, emission |-> emission,
         percentageVsCar |-> IifePercentageVsCar(emission, carEmission)]

IifeCalculateAllModes(distanceKm) ==
    IF FCmp(distanceKm, Zero) <= 0 THEN Throw(InvalidDistance)
    ELSE LET carEmission == IifeCalculateEmission(distanceKm, "car").val
         IN  Return(SortByEmission(
                 [i \in 1..Len(Modes) |->
                     IifeEntry(distanceKm, Modes[i], carEmission)]))

(***************************************************************************)
(* calculateSavingd (object literal) and calculateSavings (module pattern) *)
(***************************************************************************)
NoSavings == [savedKg |-> Zero, percentage |-> Zero]

VarCalculateSavingd(emission, baselineEmission) ==
    IF FCmp(baselineEmission, Zero) <= 0 THEN Return(NoSavings)
    ELSE LET savedKg    == FSub(baselineEmission, emission)
             percentage == FMul(FDiv(savedKg, baselineEmission), FromInt(100))
         IN  Return([savedKg |-> ToFixed2(savedKg),
                     percentage |-> ToFixed2(percentage)])

\* Math.max(0, x)
MathMax0(x) == IF FCmp(x, Zero) > 0 THEN x ELSE Zero

\* IifeCalculateSavings rejecting a non-positive baseline, as calculateEmission
\* rejects a non-positive distance
IifeCalculateSavingsRejecting(emission, baselineEmission) ==
    IF FCmp(baselineEmission, Zero) <= 0
    THEN Throw("Invalid baseline. Must be a positive number.")
    ELSE LET savedKg    == MathMax0(FSub(baselineEmission, emission))
             percentage == FMul(FDiv(savedKg, baselineEmission), FromInt(100))
         IN  Return([savedKg |-> Round2(savedKg),
                     percentage |-> Round2(percentage)])

IifeCalculateSavings(emission, baselineEmission) ==
    IF FCmp(baselineEmission, Zero) <= 0 THEN Return(NoSavings)
    ELSE LET savedKg    == MathMax0(FSub(baselineEmission, emission))
             percentage == FMul(FDiv(savedKg, baselineEmission), FromInt(100))
         IN  Return([savedKg |-> Round2(savedKg),
                     percentage |-> Round2(percentage)])

(***************************************************************************)
(* calculateCarbonCredits                                                  *)
(***************************************************************************)
VarCalculateCarbonCredits(emissionKg) ==
    IF FCmp(emissionKg, Zero) <= 0 THEN Return(Zero)
    ELSE Return(ToFixed4(FDiv(emissionKg, CARBON_CREDIT.KG_PER_CREDIT)))

NegativeEmission == "Emission must be a non-negative number"

\* Round4 rounding to two decimals, as the other results are rounded
Round4ToCents(x) == Round2(x)

\* Math.round(x * 10000) / 10000
Round4(x) == FDiv(MathRound(FMul(x, FromInt(10000))), FromInt(10000))

IifeCalculateCarbonCredits(emissionKg) ==
    IF FCmp(emissionKg, Zero) < 0 THEN Throw(NegativeEmission)
    ELSE Return(Round4(FDiv(emissionKg, CARBON_CREDIT.KG_PER_CREDIT)))

(***************************************************************************)
(* estimatedCreditPrice (object literal), estimateCreditPrice (module      *)
(* pattern)                                                                *)
(***************************************************************************)
NoPrice == [min |-> Zero, max |-> Zero, average |-> Zero]

\* (min + max) / 2
Average(min, max) == FDiv(FAdd(min, max), FromInt(2))

VarPriceOf(min, max) ==
    [min |-> ToFixed2(min), max |-> ToFixed2(max),
     average |-> ToFixed2(Average(min, max))]

VarEstimatedCreditPrice(credits) ==
    IF FCmp(credits, Zero) <= 0 THEN Return(NoPrice)
    ELSE Return(VarPriceOf(FMul(credits, CARBON_CREDIT.PRICE_MIN_USD),
                           FMul(credits, CARBON_CREDIT.PRICE_MAX_USD)))

NegativeCredits == "Credits must be a non-negative number"

IifePriceOf(minPrice, maxPrice) ==
    [min |-> Round2(minPrice), max |-> Round2(maxPrice),
     average |-> Round2(Average(minPrice, maxPrice))]

IifeEstimateCreditPrice(credits) ==
    IF FCmp(credits, Zero) < 0 THEN Throw(NegativeCredits)
    ELSE Return(IifePriceOf(FMul(credits, CARBON_CREDIT.PRICE_MIN_USD),
                            FMul(credits, CARBON_CREDIT.PRICE_MAX_USD)))

(***************************************************************************)
(* RoutesDB.  A string is the sequence of its characters, so that trim()   *)
(* and toLowerCase() are computed character by character.                  *)
(***************************************************************************)
\* the city names of the two route tables, as written in the source
City ==
    [Toronto |-> <<"T", "o", "r", "o", "n", "t", "o", ",", " ", "O", "N">>,
     Ottawa |-> <<"O", "t", "t", "a", "w", "a", ",", " ", "O", "N">>,
     Montreal |-> <<"M", "o", "n", "t", "r", "e", "a", "l", ",", " ", "Q",
         "C">>,
     Vancouver |-> <<"V", "a", "n", "c", "o", "u", "v", "e", "r", ",", " ",
         "B", "C">>,
     NewYork |-> <<"N", "e", "w", " ", "Y", "o", "r", "k", ",", " ", "N",
         "Y">>,
     Chicago |-> <<"C", "h", "i", "c", "a", "g", "o", ",", " ", "I", "L">>,
     Edmonton |-> <<"E", "d", "m", "o", "n", "t", "o", "n", ",", " ", "A",
         "B">>,
     QuebecCity |-> <<"Q", "u", "e", "b", "e", "c", " ", "C", "i", "t", "y",
         ",", " ", "Q", "C">>,
     Boston |-> <<"B", "o", "s", "t", "o", "n", ",", " ", "M", "A">>,
     Seattle |-> <<"S", "e", "a", "t", "t", "l", "e", ",", " ", "W", "A">>,
     Calgary |-> <<"C", "a", "l", "g", "a", "r", "y", ",", " ", "A", "B">>,
     Winnipeg |-> <<"W", "i", "n", "n", "i", "p", "e", "g", ",", " ", "M",
         "B">>,
     Saskatoon |-> <<"S", "a", "s", "k", "a", "t", "o", "o", "n", ",", " ",
         "S", "K">>,
     Victoria |-> <<"V", "i", "c", "t", "o", "r", "i", "a", ",", " ", "B",
         "C">>,
     ThunderBay |-> <<"T", "h", "u", "n", "d", "e", "r", " ", "B", "a", "y",
         ",", " ", "O", "N">>,
     Halifax |-> <<"H", "a", "l", "i", "f", "a", "x", ",", " ", "N", "S">>,
     StJohns |-> <<"S", "t", ".", " ", "J", "o", "h", "n", "'", "s", ",",
         " ", "N", "L">>,
     Washington |-> <<"W", "a", "s", "h", "i", "n", "g", "t", "o", "n", ",",
         " ", "D", "C">>,
     LosAngeles |-> <<"L", "o", "s", " ", "A", "n", "g", "e", "l", "e", "s",
         ",", " ", "C", "A">>,
     SanFrancisco |-> <<"S", "a", "n", " ", "F", "r", "a", "n", "c", "i",
         "s", "c", "o", ",", " ", "C", "A">>,
     LasVegas |-> <<"L", "a", "s", " ", "V", "e", "g", "a", "s", ",", " ",
         "N", "V">>,
     SanDiego |-> <<"S", "a", "n", " ", "D", "i", "e", "g", "o", ",", " ",
         "C", "A">>,
     Detroit |-> <<"D", "e", "t", "r", "o", "i", "t", ",", " ", "M", "I">>,
     StLouis |-> <<"S", "t", ".", " ", "L", "o", "u", "i", "s", ",", " ",
         "M", "O">>,
     Minneapolis |-> <<"M", "i", "n", "n", "e", "a", "p", "o", "l", "i", "s",
         ",", " ", "M", "N">>,
     Portland |-> <<"P", "o", "r", "t", "l", "a", "n", "d", ",", " ", "O",
         "R">>,
     Windsor |-> <<"W", "i", "n", "d", "s", "o", "r", ",", " ", "O", "N">>,
     Buffalo |-> <<"B", "u", "f", "f", "a", "l", "o", ",", " ", "N", "Y">>,
     Miami |-> <<"M", "i", "a", "m", "i", ",", " ", "F", "L">>,
     Orlando |-> <<"O", "r", "l", "a", "n", "d", "o", ",", " ", "F", "L">>,
     Atlanta |-> <<"A", "t", "l", "a", "n", "t", "a", ",", " ", "G", "A">>,
     Nashville |-> <<"N", "a", "s", "h", "v", "i", "l", "l", "e", ",", " ",
         "T", "N">>,
     Dallas |-> <<"D", "a", "l", "l", "a", "s", ",", " ", "T", "X">>,
     Houston |-> <<"H", "o", "u", "s", "t", "o", "n", ",", " ", "T", "X">>,
     Austin |-> <<"A", "u", "s", "t", "i", "n", ",", " ", "T", "X">>,
     Phoenix |-> <<"P", "h", "o", "e", "n", "i", "x", ",", " ", "A", "Z">>,
     Tucson |-> <<"T", "u", "c", "s", "o", "n", ",", " ", "A", "Z">>,
     Regina |-> <<"R", "e", "g", "i", "n", "a", ",", " ", "S", "K">>,
     Moncton |-> <<"M", "o", "n", "c", "t", "o", "n", ",", " ", "N", "B">>,
     Hamilton |-> <<"H", "a", "m", "i", "l", "t", "o", "n", ",", " ", "O",
         "N">>,
     Denver |-> <<"D", "e", "n", "v", "e", "r", ",", " ", "C", "O">>,
     SaltLakeCity |-> <<"S", "a", "l", "t", " ", "L", "a", "k", "e", " ",
         "C", "i", "t", "y", ",", " ", "U", "T">>]

Route(origin, destination, distanceKm) ==
    [origin |-> origin, destination |-> destination, distanceKm |-> distanceKm]

\* const routes = [...] of the module pattern, in table order
IifeRoutes ==
    <<Route(City.Toronto, City.Ottawa, 451),
      Route(City.Toronto, City.Montreal, 542),
      Route(City.Toronto, City.Vancouver, 4350),
      Route(City.Toronto, City.NewYork, 874),
      Route(City.Toronto, City.Chicago, 838),
      Route(City.Ottawa, City.Montreal, 199),
      Route(City.Ottawa, City.Edmonton, 3389),
      Route(City.Ottawa, City.Vancouver, 4465),
      Route(City.Montreal, City.QuebecCity, 250),
      Route(City.Montreal, City.Boston, 506),
      Route(City.Vancouver, City.Seattle, 230),
      Route(City.Vancouver, City.Calgary, 970),
      Route(City.Vancouver, City.Edmonton, 1170),
      Route(City.Vancouver, City.Toronto, 4350),
      Route(City.Calgary, City.Edmonton, 299),
      Route(City.Calgary, City.Winnipeg, 1330),
      Route(City.Edmonton, City.Saskatoon, 525),
      Route(City.Edmonton, City.Victoria, 1210),
      Route(City.Winnipeg, City.Toronto, 2040),
      Route(City.Winnipeg, City.Calgary, 1330),
      Route(City.Winnipeg, City.Saskatoon, 785),
      Route(City.Winnipeg, City.ThunderBay, 705),
      Route(City.Halifax, City.StJohns, 1710),
      Route(City.Halifax, City.Montreal, 1265),
      Route(City.Halifax, City.Toronto, 1795),
      Route(City.NewYork, City.Washington, 365),
      Route(City.NewYork, City.Boston, 346),
      Route(City.NewYork, City.Chicago, 1266),
      Route(City.NewYork, City.LosAngeles, 4470),
      Route(City.LosAngeles, City.SanFrancisco, 616),
      Route(City.LosAngeles, City.LasVegas, 434),
      Route(City.LosAngeles, City.SanDiego, 192),
      Route(City.Chicago, City.Detroit, 458),
      Route(City.Chicago, City.StLouis, 467),
      Route(City.Chicago, City.Minneapolis, 644),
      Route(City.Seattle, City.Portland, 280),
      Route(City.Seattle, City.Vancouver, 230),
      Route(City.Detroit, City.Windsor, 5),
      Route(City.Buffalo, City.Toronto, 157),
      Route(City.Boston, City.Montreal, 506),
      Route(City.SanFrancisco, City.Portland, 1015),
      Route(City.SanFrancisco, City.Seattle, 1300),
      Route(City.Miami, City.Orlando, 346),
      Route(City.Miami, City.Atlanta, 1087),
      Route(City.Atlanta, City.Nashville, 395),
      Route(City.Dallas, City.Houston, 385),
      Route(City.Dallas, City.Austin, 320),
      Route(City.Phoenix, City.Tucson, 188),
      Route(City.Phoenix, City.LasVegas, 474)>>

\* routes: [...] of the object literal, in table order
VarRoutes ==
    <<Route(City.Toronto, City.Ottawa, 451),
      Route(City.Ottawa, City.Montreal, 199),
      Route(City.Toronto, City.Montreal, 541),
      Route(City.Edmonton, City.Ottawa, 3389),
      Route(City.Vancouver, City.Ottawa, 4450),
      Route(City.Calgary, City.Edmonton, 299),
      Route(City.Vancouver, City.Calgary, 970),
      Route(City.Winnipeg, City.Toronto, 2225),
      Route(City.Winnipeg, City.Regina, 575),
      Route(City.Regina, City.Saskatoon, 262),
      Route(City.Halifax, City.Moncton, 260),
      Route(City.Halifax, City.StJohns, 1810),
      Route(City.QuebecCity, City.Montreal, 252),
      Route(City.QuebecCity, City.Ottawa, 445),
      Route(City.Hamilton, City.Toronto, 68),
      Route(City.Toronto, City.NewYork, 790),
      Route(City.Toronto, City.Chicago, 701),
      Route(City.Vancouver, City.Seattle, 230),
      Route(City.Montreal, City.Boston, 500),
      Route(City.Vancouver, City.SanFrancisco, 1275),
      Route(City.Calgary, City.Denver, 1350),
      Route(City.Windsor, City.Detroit, 11),
      Route(City.NewYork, City.Washington, 362),
      Route(City.Washington, City.Boston, 634),
      Route(City.LosAngeles, City.SanFrancisco, 615),
      Route(City.LosAngeles, City.LasVegas, 435),
      Route(City.SanFrancisco, City.Seattle, 1306),
      Route(City.Chicago, City.Detroit, 454),
      Route(City.Chicago, City.Minneapolis, 661),
      Route(City.Dallas, City.Houston, 385),
      Route(City.Atlanta, City.Miami, 1065),
      Route(City.Denver, City.SaltLakeCity, 830),
      Route(City.Phoenix, City.LasVegas, 475),
      Route(City.SanDiego, City.LosAngeles, 195)>>

\* characters trim() strips: space, tab, line feed
WhiteSpace == {" ", "\t", "\n"}

\* the letters toLowerCase() changes, with what it makes of them
LowerCaseOf ==
    "A" :> "a" @@ "B" :> "b" @@ "C" :> "c" @@ "D" :> "d" @@ "E" :> "e" @@
    "F" :> "f" @@ "G" :> "g" @@ "H" :> "h" @@ "I" :> "i" @@ "J" :> "j" @@
    "K" :> "k" @@ "L" :> "l" @@ "M" :> "m" @@ "N" :> "n" @@ "O" :> "o" @@
    "P" :> "p" @@ "Q" :> "q" @@ "R" :> "r" @@ "S" :> "s" @@ "T" :> "t" @@
    "U" :> "u" @@ "V" :> "v" @@ "W" :> "w" @@ "X" :> "x" @@ "Y" :> "y" @@
    "Z" :> "z"

\* String.prototype.toLowerCase
ToLowerCase(s) ==
    [i \in 1..Len(s) |->
        IF s[i] \in DOMAIN LowerCaseOf THEN LowerCaseOf[s[i]] ELSE s[i]]

RECURSIVE TrimStart(_)
TrimStart(s) ==
    IF s # <<>> /\ s[1] \in WhiteSpace THEN TrimStart(Tail(s)) ELSE s

RECURSIVE TrimEnd(_)
TrimEnd(s) ==
    IF s # <<>> /\ s[Len(s)] \in WhiteSpace
    THEN TrimEnd(SubSeq(s, 1, Len(s) - 1))
    ELSE s

\* Trim with the trailing whitespace left in place
TrimStartOnly(s) == TrimStart(s)

\* String.prototype.trim
Trim(s) == TrimEnd(TrimStart(s))

\* RouteMatches looking in the stored direction only
RouteMatchesForward(route, a, b) ==
    ToLowerCase(route.origin) = a /\ ToLowerCase(route.destination) = b

\* the test of the search: the route joins a and b, in either direction
RouteMatches(route, a, b) ==
    \/ ToLowerCase(route.origin) = a /\ ToLowerCase(route.destination) = b
    \/ ToLowerCase(route.origin) = b /\ ToLowerCase(route.destination) = a

\* FindIndex visiting the entries from the end of the table
RECURSIVE FindLastIndex(_, _, _, _, _)
FindLastIndex(routes, a, b, lo, hi) ==
    IF lo > hi THEN 0
    ELSE IF lo = hi THEN (IF RouteMatches(routes[lo], a, b) THEN lo ELSE 0)
    ELSE IF FindLastIndex(routes, a, b, (lo + hi) \div 2 + 1, hi) # 0
    THEN FindLastIndex(routes, a, b, (lo + hi) \div 2 + 1, hi)
    ELSE FindLastIndex(routes, a, b, lo, (lo + hi) \div 2)

\* the search of routes[lo..hi] in table order (Array.prototype.find, the for
\* loop): the place of the first entry that matches, 0 when none does.  The
\* entries before the middle are visited before the entries after it.
RECURSIVE FindIndex(_, _, _, _, _)
FirstOr(left, routes, a, b, lo, hi) ==
    IF left # 0 THEN left ELSE FindIndex(routes, a, b, lo, hi)

FindIndex(routes, a, b, lo, hi) ==
    IF lo > hi THEN 0
    ELSE IF lo = hi THEN (IF RouteMatches(routes[lo], a, b) THEN lo ELSE 0)
    ELSE FirstOr(FindIndex(routes, a, b, lo, (lo + hi) \div 2),
                 routes, a, b, (lo + hi) \div 2 + 1, hi)

\* the value null
Null == [k |-> "null", neg |-> FALSE, m |-> <<>>, e |-> 0]

\* ReturnRoute answering 0 where no route was found
ReturnRouteOrZero(routes, i) ==
    [err |-> "", index |-> i,
     val |-> IF i = 0 THEN Zero ELSE FromInt(routes[i].distanceKm)]

\* what findDistance returns when its search stopped at place i: the
\* distanceKm of that route, null when there is none
ReturnRoute(routes, i) ==
    [err |-> "", index |-> i,
     val |-> IF i = 0 THEN Null ELSE FromInt(routes[i].distanceKm)]

\* RoutesDB.findDistance, module pattern
IifeFindDistance(a, b) ==
    ReturnRoute(IifeRoutes,
                FindIndex(IifeRoutes, ToLowerCase(Trim(a)),
                          ToLowerCase(Trim(b)), 1, Len(IifeRoutes)))

\* RoutesDB.findDistance, object literal: an empty string is falsy
VarFindDistance(origin, destination) ==
    IF origin = <<>> \/ destination = <<>> THEN ReturnRoute(VarRoutes, 0)
    ELSE ReturnRoute(VarRoutes,
                     FindIndex(VarRoutes, ToLowerCase(Trim(origin)),
                               ToLowerCase(Trim(destination)), 1,
                               Len(VarRoutes)))

\* the UTF-16 code unit of each character the tables and the inputs use
CodeUnitOf ==
    " " :> 32 @@ "\t" :> 9 @@ "\n" :> 10 @@ "'" :> 39 @@ "," :> 44 @@
    "." :> 46 @@ "/" :> 47 @@ "A" :> 65 @@ "B" :> 66 @@ "C" :> 67 @@
    "D" :> 68 @@ "E" :> 69 @@ "F" :> 70 @@ "G" :> 71 @@ "H" :> 72 @@
    "I" :> 73 @@ "J" :> 74 @@ "K" :> 75 @@ "L" :> 76 @@ "M" :> 77 @@
    "N" :> 78 @@ "O" :> 79 @@ "P" :> 80 @@ "Q" :> 81 @@ "R" :> 82 @@
    "S" :> 83 @@ "T" :> 84 @@ "U" :> 85 @@ "V" :> 86 @@ "W" :> 87 @@
    "X" :> 88 @@ "Y" :> 89 @@ "Z" :> 90 @@ "a" :> 97 @@ "b" :> 98 @@
    "c" :> 99 @@ "d" :> 100 @@ "e" :> 101 @@ "f" :> 102 @@ "g" :> 103 @@
    "h" :> 104 @@ "i" :> 105 @@ "j" :> 106 @@ "k" :> 107 @@ "l" :> 108 @@
    "m" :> 109 @@ "n" :> 110 @@ "o" :> 111 @@ "p" :> 112 @@ "q" :> 113 @@
    "r" :> 114 @@ "s" :> 115 @@ "t" :> 116 @@ "u" :> 117 @@ "v" :> 118 @@
    "w" :> 119 @@ "x" :> 120 @@ "y" :> 121 @@ "z" :> 122

\* the comparison Array.prototype.sort makes without a comparator: the
\* strings' code units, left to right; a proper prefix comes first
RECURSIVE StringLessFrom(_, _, _)
StringLessFrom(a, b, k) ==
    IF k > Len(b) THEN FALSE
    ELSE IF k > Len(a) THEN TRUE
    ELSE IF a[k] = b[k] THEN StringLessFrom(a, b, k + 1)
    ELSE CodeUnitOf[a[k]] < CodeUnitOf[b[k]]

StringLess(a, b) == StringLessFrom(a, b, 1)

\* the place of s[k] after the sort, equal elements keeping their order
SortedPlace(s, k) ==
    1 + Cardinality({j \in DOMAIN s :
                        \/ StringLess(s[j], s[k])
                        \/ s[j] = s[k] /\ j < k})

\* the sort left out
ArrayUnsorted(s) == s

\* Array.prototype.sort() of an array of strings
ArraySort(s) ==
    [p \in 1..Len(s) |-> s[CHOOSE k \in DOMAIN s : SortedPlace(s, k) = p]]

\* the elements a Set keeps of the values added to it, in insertion order
SetKept(s) == {k \in DOMAIN s : \A j \in 1..(k - 1) : s[j] # s[k]}

\* new Set(array), Set.prototype.add of each element: Array.from of the Set
ArrayOfKept(s, kept) ==
    [p \in 1..Cardinality(kept) |->
        s[CHOOSE k \in kept : Cardinality({j \in kept : j < k}) = p - 1]]

ArrayFromSet(s) == ArrayOfKept(s, SetKept(s))

\* routes.forEach: the origin, then the destination, of each entry in turn
OriginsAndDestinations(table) ==
    [p \in 1..(2 * Len(table)) |->
        IF p % 2 = 1 THEN table[(p + 1) \div 2].origin
        ELSE table[p \div 2].destination]

\* a getAllCities that consumes the table while reading it
GetAllCitiesDrainingRoutes(table) ==
    [val |-> ArraySort(ArrayFromSet(OriginsAndDestinations(table))),
     routes |-> <<>>]

\* RoutesDB.getAllCities, module pattern: the array returned, and this.routes
\* as the call leaves it
IifeGetAllCities(table) ==
    [val |-> ArraySort(ArrayFromSet(OriginsAndDestinations(table))),
     routes |-> table]

\* RoutesDB.getAllCities, object literal
VarGetAllCities(table) ==
    [val |-> ArraySort(ArrayFromSet(OriginsAndDestinations(table))),
     routes |-> table]

(***************************************************************************)
(* The page: the form's fields, the submit button and the three result     *)
(* sections, as the handlers of CONFIG, UI and the application read and    *)
(* write them.  A field's value is a string, a sequence of characters.     *)
(***************************************************************************)
DigitChars == <<"0", "1", "2", "3", "4", "5", "6", "7", "8", "9">>

IsDigit(c) == \E d \in 1..Len(DigitChars) : DigitChars[d] = c

DigitOf(c) == (CHOOSE d \in 1..Len(DigitChars) : DigitChars[d] = c) - 1

\* String(n) of a non-negative integer
RECURSIVE DecimalDigits(_)
DecimalDigits(n) ==
    IF n < 10 THEN <<DigitChars[n + 1]>>
    ELSE Append(DecimalDigits(n \div 10), DigitChars[(n % 10) + 1])

\* input.value = distance: the string of a Number; the distances of the
\* tables are non-negative integers
NumberToString(x) == DecimalDigits(MathRoundInt(x))

\* the digits that follow one another in s from the place from on
DigitRun(s, from) ==
    CHOOSE n \in 0..Len(s) :
        /\ \A j \in from..(from + n - 1) : j <= Len(s) /\ IsDigit(s[j])
        /\ from + n > Len(s) \/ ~IsDigit(s[from + n])

\* the integer the n digits of s from the place from on denote
RECURSIVE DigitsValue(_, _, _)
DigitsValue(s, from, n) ==
    IF n = 0 THEN 0
    ELSE 10 * DigitsValue(s, from, n - 1) + DigitOf(s[from + n - 1])

\* the hundredths the fraction digits of s from the place from on denote
FractionCenti(s, from, n) ==
    IF n = 0 THEN 0
    ELSE IF n = 1 THEN 10 * DigitOf(s[from])
    ELSE 10 * DigitOf(s[from]) + DigitOf(s[from + 1])

NotANumber == [nan |-> TRUE, centi |-> 0]

ParsedFraction(s, neg, whole, dot, runWhole) ==
    IF dot <= Len(s) /\ s[dot] = "."
    THEN IF runWhole + DigitRun(s, dot + 1) = 0 THEN NotANumber
         ELSE [nan |-> FALSE,
               centi |-> (IF neg THEN -1 ELSE 1)
                          * (100 * whole
                             + FractionCenti(s, dot + 1,
                                             DigitRun(s, dot + 1)))]
    ELSE IF runWhole = 0 THEN NotANumber
    ELSE [nan |-> FALSE, centi |-> (IF neg THEN -1 ELSE 1) * 100 * whole]

ParsedWhole(s, neg, from, runWhole) ==
    ParsedFraction(s, neg, DigitsValue(s, from, runWhole), from + runWhole,
                   runWhole)

ParsedSigned(s, signed) ==
    ParsedWhole(s, signed /\ s[1] = "-", IF signed THEN 2 ELSE 1,
                DigitRun(s, IF signed THEN 2 ELSE 1))

\* parseFloat(string): leading white space skipped, a sign, the longest
\* decimal literal that follows, NaN when there is none; centi is the value
\* in hundredths.  The strings typed here carry at most two fraction digits
\* and neither an exponent nor "Infinity"
ParseFloat(s) ==
    ParsedSigned(TrimStart(s),
                 TrimStart(s) # <<>> /\ Head(TrimStart(s)) \in {"-", "+"})

\* a tryAutofill that writes the distance and does not lock the field
VarFilledUnlocked(input, found) ==
    IF found.val # Null
    THEN [value |-> NumberToString(found.val), readOnly |-> input.readOnly]
    ELSE [value |-> <<>>, readOnly |-> TRUE]

\* CONFIG.setupDistanceAutofill, object literal: tryAutofill on the distance
\* field, with the lookup's result
VarFilled(input, found) ==
    IF found.val # Null
    THEN [value |-> NumberToString(found.val), readOnly |-> TRUE]
    ELSE [value |-> <<>>, readOnly |-> TRUE]

\* a tryAutofill without its guard on the manual checkbox
VarTryAutofillUnguarded(checked, originValue, destinationValue, input) ==
    IF Trim(originValue) = <<>> \/ Trim(destinationValue) = <<>>
    THEN input
    ELSE VarFilled(input, VarFindDistance(Trim(originValue),
                                          Trim(destinationValue)))

VarTryAutofill(checked, originValue, destinationValue, input) ==
    IF checked THEN input
    ELSE IF Trim(originValue) = <<>> \/ Trim(destinationValue) = <<>>
    THEN input
    ELSE VarFilled(input, VarFindDistance(Trim(originValue),
                                          Trim(destinationValue)))

\* the manual checkbox's change handler, object literal
VarManualChange(checked, originValue, destinationValue, input) ==
    IF checked THEN [input EXCEPT !.readOnly = FALSE]
    ELSE VarTryAutofill(checked, originValue, destinationValue,
                        [input EXCEPT !.readOnly = TRUE])

\* CONFIG.setupDistanceAutofill, module pattern: calculateDistance
IifeFilled(input, found) ==
    IF found.val # Null
    THEN [value |-> NumberToString(found.val), readOnly |-> TRUE]
    ELSE [value |-> <<>>, readOnly |-> FALSE]

IifeCalculateDistance(checked, originValue, destinationValue, input) ==
    IF checked THEN input
    ELSE IF Trim(originValue) # <<>> /\ Trim(destinationValue) # <<>>
    THEN IifeFilled(input, IifeFindDistance(Trim(originValue),
                                            Trim(destinationValue)))
    ELSE [value |-> <<>>, readOnly |-> FALSE]

\* handleManualCheckbox, module pattern
IifeHandleManualCheckbox(checked, originValue, destinationValue, input) ==
    IF checked THEN [value |-> <<>>, readOnly |-> FALSE]
    ELSE IifeCalculateDistance(checked, originValue, destinationValue,
                               [input EXCEPT !.readOnly = TRUE])

\* the content of the submit button in the document, and under load
ButtonLabel == "Calculate Emission"
Spinner == "<span class=spinner></span> Calculating..."

\* dataset.originalText before it was ever set
Undefined == "undefined"

\* a showLoading that swaps the content and leaves the button enabled
ShowLoadingEnabled(button) ==
    [disabled |-> FALSE, innerHTML |-> Spinner,
     originalText |-> button.innerHTML]

\* UI.showLoading(buttonElement)
ShowLoading(button) ==
    [disabled |-> TRUE, innerHTML |-> Spinner,
     originalText |-> button.innerHTML]

\* a hideLoading that restores the content and leaves the button disabled
HideLoadingContentOnly(button) ==
    [button EXCEPT !.innerHTML = button.originalText]

\* UI.hideLoading(buttonElement), object literal
VarHideLoading(button) ==
    [button EXCEPT !.disabled = FALSE, !.innerHTML = button.originalText]

\* UI.hideLoading(buttonElement), module pattern
IifeHideLoading(button) ==
    IF button.originalText \notin {Undefined, ""}
    THEN [button EXCEPT !.disabled = FALSE, !.innerHTML = button.originalText]
    ELSE [button EXCEPT !.disabled = FALSE]

\* what handleFormSubmit reads of the form
FormValues(originValue, destinationValue, distanceValue, mode) ==
    [origin |-> Trim(originValue), destination |-> Trim(destinationValue),
     distance |-> ParseFloat(distanceValue), transport |-> mode]

\* the alerts of the handlers
FillAllFields == "Please fill in all fields before calculating."
DistanceAboveZero == "Distance must be greater than 0."
EnterOrigin == "Please enter an origin city."
EnterDestination == "Please enter a destination city."
EnterValidDistance == "Please enter a valid distance greater than 0 km."
SelectMode == "Please select a transport mode."
SameCity == "Origin and destination cannot be the same city."
SomethingWentWrong ==
    "Something went wrong while calculating emissions. Please try again."
ErrorOccurred ==
    "An error occurred during calculation. Please check your inputs and try again."

\* a validation that lets a distance of zero or less through
ValidationWithoutDistance(form) ==
    IF form.origin = <<>> \/ form.destination = <<>> \/ form.transport = ""
    THEN FillAllFields
    ELSE ""

\* the validation of handleFormSubmit, object literal: "" or the alert
VarValidation(form) ==
    IF \/ form.origin = <<>>
       \/ form.destination = <<>>
       \/ form.distance.nan
       \/ form.distance.centi = 0
       \/ form.transport = ""
    THEN FillAllFields
    ELSE IF form.distance.centi <= 0 THEN DistanceAboveZero
    ELSE ""

\* validateFormData, module pattern: "" or the alert
ValidateFormData(form) ==
    IF form.origin = <<>> THEN EnterOrigin
    ELSE IF form.destination = <<>> THEN EnterDestination
    ELSE IF form.distance.nan \/ form.distance.centi <= 0
    THEN EnterValidDistance
    ELSE IF form.transport = "" THEN SelectMode
    ELSE IF ToLowerCase(form.origin) = ToLowerCase(form.destination)
    THEN SameCity
    ELSE ""

(***************************************************************************)
(* The engine under call.  The engine is stateless: a behaviour is one     *)
(* call.  Init chooses the loaded implementation, the operation and its    *)
(* arguments; the operation's action runs it and records what it returned  *)
(* or threw.  Arguments are decimal literals in hundredths (distanceKm =   *)
(* 451 stands for the Number 4.51), converted to Numbers as parseFloat and *)
(* numeric literals do.                                                    *)
(***************************************************************************)
VARIABLES
    impl,               \* "var" or "iife": which variant of the code is loaded
    pc,                 \* "call" before the operation ran, "done" after
    op,                 \* the operation called
    distanceKm,         \* argument, in hundredths of a km
    transportMode,      \* argument
    emission,           \* argument, in hundredths of a kg
    baselineEmission,   \* argument of the savings operation, hundredths of a kg
    credits,            \* argument of the price operation, ten-thousandths
    cityA,              \* argument of findDistance, a sequence of characters
    cityB,              \* argument of findDistance, a sequence of characters
    error,              \* "" or the message of the Error thrown
    result,             \* the Number calculateEmission returned
    results,            \* the array calculateAllModes returned
    savings,            \* the object the savings operation returned
    creditsNeeded,      \* the Number calculateCarbonCredits returned
    creditPrice,        \* the object the price operation returned
    routeIndex,         \* the place of the route findDistance stopped at, or 0
    distance,           \* the value findDistance returned
    cities,             \* the array getAllCities returned
    calls,              \* the calls made of getAllCities
    routes,             \* RoutesDB.routes
    factors,            \* CONFIG.EMISSION_FACTORS
    carbonCredit,       \* CONFIG.CARBON_CREDIT
    originInput,        \* the value of the field #origin
    destinationInput,   \* the value of the field #destination
    distanceInput,      \* the field #distance: its value and readOnly
    manualCheckbox,     \* #manual-distance is checked
    selectedModeInput,  \* the value of the transport radio checked, or ""
    submitButton,       \* disabled, innerHTML and dataset.originalText
    hidden,             \* the sections that carry the class "hidden"
    timers,             \* the form data of the setTimeout callbacks pending
    autofillTimer,      \* setTimeout(calculateDistance, 100) is pending
    alerted             \* the alert the last handler raised, or ""

args == <<impl, op, distanceKm, transportMode, emission, baselineEmission,
          credits, cityA, cityB>>

\* the tables of the page: the route table and the configuration
tables == <<routes, factors, carbonCredit>>

\* the document
page == <<originInput, destinationInput, distanceInput, manualCheckbox,
          selectedModeInput, submitButton, hidden, timers, autofillTimer,
          alerted>>

vars == <<args, pc, error, result, results, savings, creditsNeeded,
          creditPrice, routeIndex, distance, cities, calls, tables, page>>

Impls == {"var", "iife"}

\* the calls made of getAllCities in one behaviour
MaxCalls == 2

\* fractional distances 0.01 .. MaxCenti / 100 km
MaxCenti == 8
\* whole distances 1 .. MaxKm km
MaxKm == 16
\* non-positive distances 0, -0.01 .. -MaxNeg / 100 km
MaxNeg == 2
\* distances with a known rounding tie, and the Toronto - Ottawa route
ProbeDistances == {330, 336, 5500, 45100}

Distances ==
    (-MaxNeg .. MaxCenti) \cup {100 * k : k \in 1..MaxKm} \cup ProbeDistances

\* the four modes, a name that is no property at all, an inherited name
ModeInputs == ModeSet \cup {"plane"} \cup InheritedNames

\* emissions -MaxNegKg / 100 .. MaxKg / 100 kg
MaxKg == 12
MaxNegKg == 2
KgInputs == -MaxNegKg .. MaxKg

\* emissions with a known rounding tie, the car emission of the Toronto -
\* Ottawa route, and the 1000 kg of one credit
ProbeKg == {15, 35, 5412, 100000}

\* credit counts -MaxNegCredits / 10000 .. MaxCredits / 10000
MaxCredits == 8
MaxNegCredits == 2
\* the credits of the Toronto - Ottawa route by car, and one credit
ProbeCredits == {541, 10000}
CreditInputs == (-MaxNegCredits .. MaxCredits) \cup ProbeCredits

Num(hundredths) == FromDec(hundredths, 100)

NumCredits(tenThousandths) == FromDec(tenThousandths, 10000)

\* a name of no table
Nowhere == <<"N", "o", "w", "h", "e", "r", "e">>

\* s with whitespace in front of it and behind it
Padded(s) == <<" ">> \o s \o <<"\t", " ">>

\* String.prototype.toUpperCase
ToUpperCase(s) ==
    [i \in 1..Len(s) |->
        IF \E c \in DOMAIN LowerCaseOf : LowerCaseOf[c] = s[i]
        THEN CHOOSE c \in DOMAIN LowerCaseOf : LowerCaseOf[c] = s[i]
        ELSE s[i]]

\* s as a user may type it: other letter case, whitespace around it
Spellings(s) ==
    {s, Padded(s), ToUpperCase(s), ToLowerCase(s), Padded(ToLowerCase(s))}

\* cities of routes stored once, stored in both directions, stored in one
\* table only
ProbeCities ==
    {City.Toronto, City.Ottawa, City.Vancouver, City.Seattle, City.Montreal,
     City.Boston, City.Regina}

\* the cities queried in every spelling
SpelledCities == {City.Toronto, City.Ottawa, City.Seattle}

\* the empty string and a string of whitespace among the inputs
CityInputs ==
    ProbeCities \cup UNION {Spellings(c) : c \in SpelledCities}
        \cup {Nowhere, <<>>, <<" ">>}

NoArgs ==
    [op |-> "", distanceKm |-> 0, transportMode |-> "car", emission |-> 0,
     baselineEmission |-> 0, credits |-> 0, cityA |-> <<>>, cityB |-> <<>>]

\* the calls made of the engine
Calls ==
    {[NoArgs EXCEPT !.op = "calculateEmission", !.distanceKm = d,
                    !.transportMode = m] : d \in Distances, m \in ModeInputs}
    \cup {[NoArgs EXCEPT !.op = "calculateAllModes", !.distanceKm = d] :
             d \in Distances}
    \cup {[NoArgs EXCEPT !.op = "calculateSavings", !.emission = e,
                         !.baselineEmission = b] :
             e \in KgInputs, b \in KgInputs}
    \cup {[NoArgs EXCEPT !.op = "calculateCarbonCredits", !.emission = e] :
             e \in KgInputs \cup ProbeKg}
    \cup {[NoArgs EXCEPT !.op = "estimateCreditPrice", !.credits = c] :
             c \in CreditInputs}
    \cup {[NoArgs EXCEPT !.op = "performCalculations", !.distanceKm = d,
                         !.transportMode = m] :
             d \in {x \in Distances : x > 0}, m \in ModeSet}
    \cup {[NoArgs EXCEPT !.op = "findDistance", !.cityA = a, !.cityB = b] :
             a \in CityInputs, b \in CityInputs}
    \cup {[NoArgs EXCEPT !.op = "getAllCities"]}

\* the sections of the results
Sections == {"results", "comparison", "carbon-credits"}

\* the document as it is parsed: the fields empty, no radio checked, the
\* button enabled with its label, the sections hidden
Document(readOnly) ==
    /\ originInput = <<>>
    /\ destinationInput = <<>>
    /\ distanceInput = [value |-> <<>>, readOnly |-> readOnly]
    /\ manualCheckbox = FALSE
    /\ selectedModeInput = ""
    /\ submitButton = [disabled |-> FALSE, innerHTML |-> ButtonLabel,
                       originalText |-> Undefined]
    /\ hidden = Sections
    /\ timers = <<>>
    /\ autofillTimer = FALSE
    /\ alerted = ""

\* the engine is called without a document: no handler of the page runs
NoDocument == Document(FALSE)

Init ==
    /\ impl \in Impls
    /\ pc = "call"
    /\ \E a \in Calls :
          /\ op = a.op
          /\ distanceKm = a.distanceKm
          /\ transportMode = a.transportMode
          /\ emission = a.emission
          /\ baselineEmission = a.baselineEmission
          /\ credits = a.credits
          /\ cityA = a.cityA
          /\ cityB = a.cityB
    /\ error = ""
    /\ result = Zero
    /\ results = <<>>
    /\ savings = NoSavings
    /\ creditsNeeded = Zero
    /\ creditPrice = NoPrice
    /\ routeIndex = 0
    /\ distance = Null
    /\ cities = <<>>
    /\ calls = 0
    /\ routes = (IF impl = "var" THEN VarRoutes ELSE IifeRoutes)
    /\ factors = EMISSION_FACTORS
    /\ carbonCredit = CARBON_CREDIT
    /\ NoDocument

CalculateEmissionOf(i, d, mode) ==
    IF i = "var" THEN VarCalculateEmission(d, mode)
    ELSE IifeCalculateEmission(d, mode)

CalculateAllModesOf(i, d) ==
    IF i = "var" THEN VarCalculateAllModes(d) ELSE IifeCalculateAllModes(d)

CalculateSavingsOf(i, e, b) ==
    IF i = "var" THEN VarCalculateSavingd(e, b) ELSE IifeCalculateSavings(e, b)

CalculateCarbonCreditsOf(i, e) ==
    IF i = "var" THEN VarCalculateCarbonCredits(e)
    ELSE IifeCalculateCarbonCredits(e)

EstimateCreditPriceOf(i, c) ==
    IF i = "var" THEN VarEstimatedCreditPrice(c) ELSE IifeEstimateCreditPrice(c)

\* performCalculations (module pattern) and the calculations of the object
\* literal's handleFormSubmit: the calls in their order, the first error thrown
\* ending them
WithPrice(sel, sav, all, cr, pr) ==
    IF pr.err # "" THEN Throw(pr.err)
    ELSE Return([emission |-> sel, savings |-> sav, allModes |-> all,
                 credits |-> cr, price |-> pr.val])

WithCredits(i, sel, sav, all, cr) ==
    IF sav.err # "" THEN Throw(sav.err)
    ELSE IF all.err # "" THEN Throw(all.err)
    ELSE IF cr.err # "" THEN Throw(cr.err)
    ELSE WithPrice(sel, sav.val, all.val, cr.val,
                   EstimateCreditPriceOf(i, cr.val))

WithEmissions(i, d, sel, car) ==
    IF sel.err # "" THEN Throw(sel.err)
    ELSE IF car.err # "" THEN Throw(car.err)
    ELSE WithCredits(i, sel.val, CalculateSavingsOf(i, sel.val, car.val),
                     CalculateAllModesOf(i, d),
                     CalculateCarbonCreditsOf(i, sel.val))

PerformCalculationsOf(i, d, mode) ==
    WithEmissions(i, d, CalculateEmissionOf(i, d, mode),
                  CalculateEmissionOf(i, d, "car"))

CalculateEmission ==
    /\ pc = "call"
    /\ op = "calculateEmission"
    /\ \E r \in {CalculateEmissionOf(impl, Num(distanceKm), transportMode)} :
           /\ error' = r.err
           /\ result' = r.val
    /\ pc' = "done"
    /\ UNCHANGED <<args, cities, calls, tables, page>>
    /\ UNCHANGED <<results, savings, creditsNeeded, creditPrice,
                   routeIndex, distance>>

CalculateAllModes ==
    /\ pc = "call"
    /\ op = "calculateAllModes"
    /\ \E r \in {CalculateAllModesOf(impl, Num(distanceKm))} :
           /\ error' = r.err
           /\ results' = IF r.err = "" THEN r.val ELSE <<>>
    /\ pc' = "done"
    /\ UNCHANGED <<args, cities, calls, tables, page>>
    /\ UNCHANGED <<result, savings, creditsNeeded, creditPrice,
                   routeIndex, distance>>

CalculateSavings ==
    /\ pc = "call"
    /\ op = "calculateSavings"
    /\ \E r \in {CalculateSavingsOf(impl, Num(emission), Num(baselineEmission))} :
           /\ error' = r.err
           /\ savings' = r.val
    /\ pc' = "done"
    /\ UNCHANGED <<args, cities, calls, tables, page>>
    /\ UNCHANGED <<result, results, creditsNeeded, creditPrice,
                   routeIndex, distance>>

CalculateCarbonCredits ==
    /\ pc = "call"
    /\ op = "calculateCarbonCredits"
    /\ \E r \in {CalculateCarbonCreditsOf(impl, Num(emission))} :
           /\ error' = r.err
           /\ creditsNeeded' = r.val
    /\ pc' = "done"
    /\ UNCHANGED <<args, cities, calls, tables, page>>
    /\ UNCHANGED <<result, results, savings, creditPrice, routeIndex,
                   distance>>

EstimateCreditPrice ==
    /\ pc = "call"
    /\ op = "estimateCreditPrice"
    /\ \E r \in {EstimateCreditPriceOf(impl, NumCredits(credits))} :
           /\ error' = r.err
           /\ creditPrice' = IF r.err = "" THEN r.val ELSE NoPrice
    /\ pc' = "done"
    /\ UNCHANGED <<args, cities, calls, tables, page>>
    /\ UNCHANGED <<result, results, savings, creditsNeeded, routeIndex,
                   distance>>

\* the form handler has validated its input: a distance > 0, a mode chosen
PerformCalculations ==
    /\ pc = "call"
    /\ op = "performCalculations"
    /\ \E r \in {PerformCalculationsOf(impl, Num(distanceKm), transportMode)} :
           /\ error' = r.err
           /\ r.err = "" => /\ result' = r.val.emission
                            /\ savings' = r.val.savings
                            /\ results' = r.val.allModes
                            /\ creditsNeeded' = r.val.credits
                            /\ creditPrice' = r.val.price
           /\ r.err # "" => UNCHANGED <<result, savings, results, creditsNeeded,
                                        creditPrice>>
    /\ pc' = "done"
    /\ UNCHANGED <<args, cities, calls, tables, page>>
    /\ UNCHANGED <<routeIndex, distance>>

FindDistanceOf(i, a, b) ==
    IF i = "var" THEN VarFindDistance(a, b) ELSE IifeFindDistance(a, b)

FindDistance ==
    /\ pc = "call"
    /\ op = "findDistance"
    /\ \E r \in {FindDistanceOf(impl, cityA, cityB)} :
           /\ error' = r.err
           /\ routeIndex' = r.index
           /\ distance' = r.val
    /\ pc' = "done"
    /\ UNCHANGED <<args, cities, calls, tables, page>>
    /\ UNCHANGED <<result, results, savings, creditsNeeded, creditPrice>>

GetAllCitiesOf(i, table) ==
    IF i = "var" THEN VarGetAllCities(table) ELSE IifeGetAllCities(table)

\* getAllCities may be called again and again
GetAllCities ==
    /\ op = "getAllCities"
    /\ calls < MaxCalls
    /\ \E r \in {GetAllCitiesOf(impl, routes)} :
           /\ cities' = r.val
           /\ routes' = r.routes
    /\ calls' = calls + 1
    /\ error' = ""
    /\ pc' = "done"
    /\ UNCHANGED <<args, factors, carbonCredit, page, result, results,
                   savings, creditsNeeded, creditPrice, routeIndex, distance>>

Next ==
    \/ CalculateEmission
    \/ CalculateAllModes
    \/ CalculateSavings
    \/ CalculateCarbonCredits
    \/ EstimateCreditPrice
    \/ PerformCalculations
    \/ FindDistance
    \/ GetAllCities

Spec == Init /\ [][Next]_vars

(***************************************************************************)
(* The page under a user.  DOMContentLoaded fills the datalist and wires   *)
(* the handlers; then the user edits the fields, toggles the manual        *)
(* checkbox, picks a transport mode and submits the form, and the timers   *)
(* the handlers set fire.  The browser sends no submit event through a     *)
(* disabled submit button, and lets no one type into a read-only field.    *)
(* The text rendered into the sections is not part of the state: their     *)
(* visibility is.                                                          *)
(***************************************************************************)
\* what the user enters as a city: the origin of a route as the table spells
\* it, its destination respelled, a name of no route
OriginTexts == {City.Toronto, Nowhere}
DestinationTexts == {Padded(ToLowerCase(City.Ottawa)), Nowhere}

\* what the user types as a distance
DistanceTexts == {<<"0">>, <<"-", "1">>, <<"4", "5", "1">>}

\* the values of the transport radios: a mode, and a value of no mode
TransportValues == {"car", "plane"}

\* the submit events a script may dispatch while callbacks are pending
MaxPending == 2

AppInit ==
    /\ impl \in Impls
    /\ pc = "loading"
    /\ op = "page"
    /\ distanceKm = NoArgs.distanceKm
    /\ transportMode = NoArgs.transportMode
    /\ emission = NoArgs.emission
    /\ baselineEmission = NoArgs.baselineEmission
    /\ credits = NoArgs.credits
    /\ cityA = NoArgs.cityA
    /\ cityB = NoArgs.cityB
    /\ error = ""
    /\ result = Zero
    /\ results = <<>>
    /\ savings = NoSavings
    /\ creditsNeeded = Zero
    /\ creditPrice = NoPrice
    /\ routeIndex = 0
    /\ distance = Null
    /\ cities = <<>>
    /\ calls = 0
    /\ routes = (IF impl = "var" THEN VarRoutes ELSE IifeRoutes)
    /\ factors = EMISSION_FACTORS
    /\ carbonCredit = CARBON_CREDIT
    /\ \E readOnly \in BOOLEAN : Document(readOnly)

\* what no handler of the page writes
engine == <<impl, op, emission, baselineEmission, credits, cityA, cityB,
            routeIndex, distance, factors, carbonCredit>>

\* the results of the calculations
outputs == <<distanceKm, transportMode, error, result, results, savings,
             creditsNeeded, creditPrice>>

\* the listener of DOMContentLoaded: populateDatalist / populateDetails,
\* setupDistanceAutofill, the submit listener
DOMContentLoaded ==
    /\ pc = "loading"
    /\ \E r \in {GetAllCitiesOf(impl, routes)} :
           /\ cities' = r.val
           /\ routes' = r.routes
    /\ calls' = calls + 1
    /\ autofillTimer' = (impl = "iife")
    /\ alerted' = ""
    /\ pc' = "ready"
    /\ UNCHANGED <<engine, outputs, originInput, destinationInput,
                   distanceInput, manualCheckbox, selectedModeInput,
                   submitButton, hidden, timers>>

\* the listeners of "change" on the two city fields
TryAutofillOf(i, checked, originValue, destinationValue, input) ==
    IF i = "var"
    THEN VarTryAutofill(checked, originValue, destinationValue, input)
    ELSE IifeCalculateDistance(checked, originValue, destinationValue, input)

\* the listeners of "input" on the two city fields: the object literal has none
InputListenerOf(i, checked, originValue, destinationValue, input) ==
    IF i = "var" THEN input
    ELSE IifeCalculateDistance(checked, originValue, destinationValue, input)

ManualChangeOf(i, checked, originValue, destinationValue, input) ==
    IF i = "var"
    THEN VarManualChange(checked, originValue, destinationValue, input)
    ELSE IifeHandleManualCheckbox(checked, originValue, destinationValue,
                                  input)

\* the user edits the origin: the field's value changes, "input" is sent
OriginInput ==
    /\ pc = "ready"
    /\ \E v \in OriginTexts :
           /\ originInput' = v
           /\ distanceInput' = InputListenerOf(impl, manualCheckbox, v,
                                               destinationInput,
                                               distanceInput)
    /\ alerted' = ""
    /\ UNCHANGED <<engine, outputs, pc, cities, calls, routes,
                   destinationInput, manualCheckbox, selectedModeInput,
                   submitButton, hidden, timers, autofillTimer>>

DestinationInput ==
    /\ pc = "ready"
    /\ \E v \in DestinationTexts :
           /\ destinationInput' = v
           /\ distanceInput' = InputListenerOf(impl, manualCheckbox,
                                               originInput, v, distanceInput)
    /\ alerted' = ""
    /\ UNCHANGED <<engine, outputs, pc, cities, calls, routes, originInput,
                   manualCheckbox, selectedModeInput, submitButton, hidden,
                   timers, autofillTimer>>

\* the user leaves the origin field: "change" is sent
OriginChange ==
    /\ pc = "ready"
    /\ distanceInput' = TryAutofillOf(impl, manualCheckbox, originInput,
                                      destinationInput, distanceInput)
    /\ alerted' = ""
    /\ UNCHANGED <<engine, outputs, pc, cities, calls, routes, originInput,
                   destinationInput, manualCheckbox, selectedModeInput,
                   submitButton, hidden, timers, autofillTimer>>

DestinationChange ==
    /\ pc = "ready"
    /\ distanceInput' = TryAutofillOf(impl, manualCheckbox, originInput,
                                      destinationInput, distanceInput)
    /\ alerted' = ""
    /\ UNCHANGED <<engine, outputs, pc, cities, calls, routes, originInput,
                   destinationInput, manualCheckbox, selectedModeInput,
                   submitButton, hidden, timers, autofillTimer>>

\* the user clicks the manual checkbox: it flips, "change" is sent
ManualCheckboxChange ==
    /\ pc = "ready"
    /\ manualCheckbox' = ~manualCheckbox
    /\ distanceInput' = ManualChangeOf(impl, ~manualCheckbox, originInput,
                                       destinationInput, distanceInput)
    /\ alerted' = ""
    /\ UNCHANGED <<engine, outputs, pc, cities, calls, routes, originInput,
                   destinationInput, selectedModeInput, submitButton, hidden,
                   timers, autofillTimer>>

\* the user types a distance, which a read-only field does not take
DistanceTyped ==
    /\ pc = "ready"
    /\ ~distanceInput.readOnly
    /\ \E v \in DistanceTexts :
           distanceInput' = [distanceInput EXCEPT !.value = v]
    /\ alerted' = ""
    /\ UNCHANGED <<engine, outputs, pc, cities, calls, routes, originInput,
                   destinationInput, manualCheckbox, selectedModeInput,
                   submitButton, hidden, timers, autofillTimer>>

\* the user checks a transport radio
TransportChecked ==
    /\ pc = "ready"
    /\ \E m \in TransportValues : selectedModeInput' = m
    /\ alerted' = ""
    /\ UNCHANGED <<engine, outputs, pc, cities, calls, routes, originInput,
                   destinationInput, distanceInput, manualCheckbox,
                   submitButton, hidden, timers, autofillTimer>>

\* setTimeout(calculateDistance, 100) of the module pattern fires
AutofillTimerFires ==
    /\ pc = "ready"
    /\ autofillTimer
    /\ autofillTimer' = FALSE
    /\ distanceInput' = IifeCalculateDistance(manualCheckbox, originInput,
                                              destinationInput, distanceInput)
    /\ alerted' = ""
    /\ UNCHANGED <<engine, outputs, pc, cities, calls, routes, originInput,
                   destinationInput, manualCheckbox, selectedModeInput,
                   submitButton, hidden, timers>>

ValidationOf(i, form) ==
    IF i = "var" THEN VarValidation(form) ELSE ValidateFormData(form)

\* a handleFormSubmit that leaves the sections of an earlier result on display
SubmittedWithoutHiding(form, rejection) ==
    IF rejection # ""
    THEN /\ alerted' = rejection
         /\ UNCHANGED <<submitButton, hidden, timers>>
    ELSE /\ submitButton' = ShowLoading(submitButton)
         /\ timers' = Append(timers, [distance |-> form.distance.centi,
                                      transport |-> form.transport])
         /\ alerted' = ""
         /\ UNCHANGED hidden

\* handleFormSubmit up to setTimeout: a rejected form ends with its alert; the
\* callback set keeps the distance and the mode it will calculate with
Submitted(form, rejection) ==
    IF rejection # ""
    THEN /\ alerted' = rejection
         /\ UNCHANGED <<submitButton, hidden, timers>>
    ELSE /\ submitButton' = ShowLoading(submitButton)
         /\ hidden' = hidden \cup Sections
         /\ timers' = Append(timers, [distance |-> form.distance.centi,
                                      transport |-> form.transport])
         /\ alerted' = ""

HandleFormSubmit ==
    /\ Submitted(FormValues(originInput, destinationInput,
                            distanceInput.value, selectedModeInput),
                 ValidationOf(impl, FormValues(originInput, destinationInput,
                                               distanceInput.value,
                                               selectedModeInput)))
    /\ UNCHANGED <<engine, outputs, pc, cities, calls, routes, originInput,
                   destinationInput, distanceInput, manualCheckbox,
                   selectedModeInput, autofillTimer>>

\* the user submits the form, through the submit button
Submit ==
    /\ pc = "ready"
    /\ ~submitButton.disabled
    /\ HandleFormSubmit

\* UI.renderResults reads CONFIG.TRANSPORT_MODES[mode].icon: a TypeError for
\* a mode the table does not hold, undefined for an inherited name
TypeError == "TypeError"

RenderThrows(mode) == mode \notin ModeSet \cup InheritedNames

HideLoadingOf(i, button) ==
    IF i = "var" THEN VarHideLoading(button) ELSE IifeHideLoading(button)

\* the callback's try block: the calculations, then the rendering
Rendered(r, mode) ==
    IF r.err = "" /\ RenderThrows(mode) THEN [r EXCEPT !.err = TypeError]
    ELSE r

Calculated(i, form) ==
    Rendered(PerformCalculationsOf(i, Num(form.distance), form.transport),
             form.transport)

CalculationAlert(i) == IF i = "var" THEN SomethingWentWrong ELSE ErrorOccurred

\* the callback of setTimeout(..., 1500): the timers fire in the order set
TimerCallback ==
    /\ pc = "ready"
    /\ timers # <<>>
    /\ timers' = Tail(timers)
    /\ distanceKm' = Head(timers).distance
    /\ transportMode' = Head(timers).transport
    /\ \E r \in {Calculated(impl, Head(timers))} :
           /\ error' = r.err
           /\ IF r.err = ""
              THEN /\ result' = r.val.emission
                   /\ savings' = r.val.savings
                   /\ results' = r.val.allModes
                   /\ creditsNeeded' = r.val.credits
                   /\ creditPrice' = r.val.price
                   /\ hidden' = hidden \ Sections
                   /\ alerted' = ""
              ELSE /\ UNCHANGED <<result, savings, results, creditsNeeded,
                                  creditPrice, hidden>>
                   /\ alerted' = CalculationAlert(impl)
    /\ submitButton' = HideLoadingOf(impl, submitButton)
    /\ UNCHANGED <<engine, pc, cities, calls, routes, originInput,
                   destinationInput, distanceInput, manualCheckbox,
                   selectedModeInput, autofillTimer>>

AppNext ==
    \/ DOMContentLoaded
    \/ OriginInput
    \/ DestinationInput
    \/ OriginChange
    \/ DestinationChange
    \/ ManualCheckboxChange
    \/ DistanceTyped
    \/ TransportChecked
    \/ AutofillTimerFires
    \/ Submit
    \/ TimerCallback

App == AppInit /\ [][AppNext]_vars

\* the event loop takes the callback at the head of the timers: the steps of
\* TimerCallback, and no others, do that, and one is possible whenever a
\* callback is pending
TimerFires ==
    /\ pc = "ready"
    /\ timers # <<>>
    /\ timers' = Tail(timers)

\* a timer set fires after its delay, as long as the page stays open
FairApp == App /\ WF_timers(TimerFires)

\* a script dispatches a submit event at the form, whatever the button's state
DispatchSubmit ==
    /\ pc = "ready"
    /\ Len(timers) < MaxPending
    /\ HandleFormSubmit

ScriptedNext == AppNext \/ DispatchSubmit

Scripted == AppInit /\ [][ScriptedNext]_vars

(***************************************************************************)
(* Reference arithmetic of the contract, on exact integers.                *)
(***************************************************************************)
Max0(n) == IF n > 0 THEN n ELSE 0

\* the operation o has run
Done(o) == pc = "done" /\ op = o

\* n / unit rounded to an integer, halves away from zero, for n >= 0
RoundHalfAway(n, unit) == (2 * n + unit) \div (2 * unit)

\* n / unit rounded to an integer, halves to the even neighbour, for n >= 0
RoundHalfEven(n, unit) ==
    IF 2 * (n % unit) > unit \/ (2 * (n % unit) = unit /\ (n \div unit) % 2 = 1)
    THEN n \div unit + 1
    ELSE n \div unit

\* d * factor[mode] exactly, in 1 / 100000 kg, for d in hundredths of a km
ExactEmission(d, mode) == d * FactorMilli[mode]

\* the hundredths a two-decimal Number stands for
Cents(x) == ToFixed2Int(x)

(***************************************************************************)
(* calculateEmission                                                       *)
(***************************************************************************)
\* C1: for every distance d > 0 and each of the four modes, calculateEmission
\* returns exactly d * factor[mode] rounded to two decimals (a half rounded
\* away from zero or to even), in both implementations.
C1_EmissionIsExactProductRounded ==
    (Done("calculateEmission") /\ distanceKm > 0 /\ transportMode \in ModeSet)
        => /\ error = ""
           /\ result \in
                {Num(RoundHalfAway(ExactEmission(distanceKm, transportMode), 1000)),
                 Num(RoundHalfEven(ExactEmission(distanceKm, transportMode), 1000))}

\* C2, as claimed: for every distance d >= 0, d = 0 included,
\* calculateEmission(d, "bicycle") returns a result and the result is 0.
C2_BicycleIsZeroFromZeroDistance ==
    (Done("calculateEmission") /\ distanceKm >= 0 /\ transportMode = "bicycle")
        => error = "" /\ result = Zero

\* C2, amended: for every distance d > 0 calculateEmission(d, "bicycle")
\* returns 0 in both implementations; at d = 0 the object literal returns 0
\* and the module pattern throws "Invalid distance".
C2_BicycleIsZero ==
    (Done("calculateEmission") /\ distanceKm >= 0 /\ transportMode = "bicycle")
        => IF impl = "iife" /\ distanceKm = 0
           THEN error = InvalidDistance
           ELSE error = "" /\ result = Zero

\* the module pattern returned 0 for a bicycle ride of 1 km
C2_BicycleRideReturned ==
    /\ Done("calculateEmission")
    /\ impl = "iife"
    /\ transportMode = "bicycle"
    /\ distanceKm = 100
    /\ error = ""
    /\ result = Zero

\* C4: calculateEmission with a mode outside the four is rejected with an
\* error for every distance; it never returns a numeric emission.
C4_UnknownModeIsRejected ==
    (Done("calculateEmission") /\ transportMode \notin ModeSet) => error # ""

\* C5: one policy for non-positive distance: for every d <= 0 and every valid
\* mode, calculateEmission and calculateAllModes of both implementations all
\* reject, or all yield a result.
C5_OnePolicyForNonPositiveDistance ==
    (/\ pc = "done"
     /\ op \in {"calculateEmission", "calculateAllModes"}
     /\ distanceKm <= 0
     /\ transportMode \in ModeSet)
        => \A i \in Impls :
              /\ (CalculateEmissionOf(i, Num(distanceKm), transportMode).err = "")
                     = (error = "")
              /\ (CalculateAllModesOf(i, Num(distanceKm)).err = "") = (error = "")

(***************************************************************************)
(* calculateSavings / calculateSavingd                                     *)
(***************************************************************************)
\* C3: the savings operation never returns a negative savedKg: for every
\* actual emission and every baseline > 0, savedKg = max(0, baseline - actual),
\* so a mode emitting more than the baseline saves 0 kg and 0 percent.
C3_SavingsNeverNegative ==
    (Done("calculateSavings") /\ baselineEmission > 0)
        => /\ error = ""
           /\ savings.savedKg = Num(Max0(baselineEmission - emission))
           /\ (emission >= baselineEmission => savings.percentage = Zero)

(***************************************************************************)
(* calculateAllModes                                                       *)
(***************************************************************************)
\* the place of a mode in the declaration order of the factor table
ModeIndex(mode) == CHOOSE i \in 1..Len(Modes) : Modes[i] = mode

\* four entries, one per mode, ascending by emission, bicycle at 0
FourEntriesAscending(rs) ==
    /\ Len(rs) = Len(Modes)
    /\ {rs[i].mode : i \in 1..Len(rs)} = ModeSet
    /\ \A i \in 1..Len(rs) - 1 : FCmp(rs[i].emission, rs[i + 1].emission) <= 0
    /\ \A i \in 1..Len(rs) : rs[i].mode = "bicycle" => rs[i].emission = Zero

\* C6, as claimed: calculateAllModes(d) always returns exactly 4 entries, one
\* per mode, ascending by emission, the bicycle entry with emission 0.
C6_AlwaysFourEntries ==
    Done("calculateAllModes") => error = "" /\ FourEntriesAscending(results)

\* C6, amended: whenever calculateAllModes accepts the distance (every d in
\* the object literal, d > 0 in the module pattern) it returns exactly 4
\* entries, one per mode, ascending by emission, bicycle at 0; the module
\* pattern throws "Invalid distance" for d <= 0 and returns nothing.
C6_FourEntriesWhenAccepted ==
    Done("calculateAllModes")
        => IF impl = "iife" /\ distanceKm <= 0
           THEN error = InvalidDistance /\ results = <<>>
           ELSE error = "" /\ FourEntriesAscending(results)

\* the module pattern compared the modes for 1 km: bicycle first, truck last
C6_ComparisonReturned ==
    /\ Done("calculateAllModes")
    /\ impl = "iife"
    /\ distanceKm = 100
    /\ error = ""
    /\ Len(results) = 4
    /\ results[1].mode = "bicycle"
    /\ results[2].mode = "bus"
    /\ results[3].mode = "car"
    /\ results[4].mode = "truck"

\* C7: whenever the car emission for the distance is > 0, each entry's
\* percentageVsCar is round(emission / car emission * 100), an integer (a half
\* rounded away from zero or to even), so the car entry is exactly 100.
C7_PercentageIsRoundedRatio ==
    (Done("calculateAllModes") /\ error = "")
        => \A i, c \in 1..Len(results) :
              (results[c].mode = "car" /\ Cents(results[c].emission) > 0)
                  => results[i].percentageVsCar \in
                        {FromInt(RoundHalfAway(100 * Cents(results[i].emission),
                                               Cents(results[c].emission))),
                         FromInt(RoundHalfEven(100 * Cents(results[i].emission),
                                               Cents(results[c].emission)))}

\* C8: when the car emission for the distance is 0, percentageVsCar is 100 for
\* every mode whose emission is 0 and the overflow marker for every mode whose
\* emission is > 0; no NaN is produced.
C8_CarZeroGivesHundredOrMarker ==
    (Done("calculateAllModes") /\ error = "")
        => \A i, c \in 1..Len(results) :
              (results[c].mode = "car" /\ FIsZero(results[c].emission))
                  => /\ results[i].percentageVsCar.k # "nan"
                     /\ results[i].percentageVsCar =
                            IF FIsZero(results[i].emission) THEN FromInt(100)
                            ELSE Infinity

\* C9, as claimed: the rounded car emission is > 0 for every accepted distance
\* d > 0, 0.01 km included, so calculateAllModes never sees a car emission of 0
\* for a positive distance.
C9_CarEmissionPositive ==
    /\ (Done("calculateEmission") /\ transportMode = "car" /\ distanceKm > 0)
           => error = "" /\ FCmp(result, Zero) > 0
    /\ (Done("calculateAllModes") /\ distanceKm > 0)
           => /\ error = ""
              /\ \A c \in 1..Len(results) :
                    results[c].mode = "car" => FCmp(results[c].emission, Zero) > 0

\* C9, amended: for an accepted distance d > 0 the rounded car emission is > 0
\* exactly when d * 0.12 >= 0.005 kg (d >= 0.05 km on the two-decimal grid);
\* for smaller d it is 0 and calculateAllModes sees a car emission of 0.
C9_CarEmissionPositiveFromHalfCent ==
    /\ (Done("calculateEmission") /\ transportMode = "car" /\ distanceKm > 0)
           => /\ error = ""
              /\ (FCmp(result, Zero) > 0)
                     = (2 * ExactEmission(distanceKm, "car") >= 1000)
    /\ (Done("calculateAllModes") /\ distanceKm > 0)
           => /\ error = ""
              /\ \A c \in 1..Len(results) :
                    results[c].mode = "car"
                        => (FCmp(results[c].emission, Zero) > 0)
                               = (2 * ExactEmission(distanceKm, "car") >= 1000)

\* the module pattern compared the modes for 0.01 km: the car emits 0.00 kg
\* and the truck, at 0.01 kg, got the overflow marker
C9_CarZeroBranchTaken ==
    /\ Done("calculateAllModes")
    /\ impl = "iife"
    /\ distanceKm = 1
    /\ error = ""
    /\ \E c, t \in 1..Len(results) :
          /\ results[c].mode = "car"
          /\ results[c].emission = Zero
          /\ results[t].mode = "truck"
          /\ results[t].emission = Num(1)
          /\ results[t].percentageVsCar = Infinity

\* C10: entries with equal emission keep the declaration order of the factor
\* table, and a call with the same distance gives the same order again.
C10_TiesKeepDeclarationOrder ==
    (Done("calculateAllModes") /\ error = "")
        => /\ \A i, j \in 1..Len(results) :
                 (i < j /\ results[i].emission = results[j].emission)
                     => ModeIndex(results[i].mode) < ModeIndex(results[j].mode)
           /\ results = CalculateAllModesOf(impl, Num(distanceKm)).val

\* at 0.06 km car and bus both round to 0.01 kg: car stands before bus
C10_CarBusTie ==
    /\ Done("calculateAllModes")
    /\ distanceKm = 6
    /\ error = ""
    /\ results[2].mode = "car"
    /\ results[3].mode = "bus"
    /\ results[2].emission = Num(1)
    /\ results[3].emission = Num(1)

\* C11: for every actual emission and every baseline <= 0 the savings
\* operation returns {savedKg: 0, percentage: 0} and raises no error.
C11_NoSavingsWithoutBaseline ==
    (Done("calculateSavings") /\ baselineEmission <= 0)
        => error = "" /\ savings = NoSavings

\* the module pattern was asked for the savings of 0.05 kg against a baseline
\* of -0.01 kg and returned {0, 0}
C11_NegativeBaselineReturned ==
    /\ Done("calculateSavings")
    /\ impl = "iife"
    /\ emission = 5
    /\ baselineEmission = -1
    /\ error = ""
    /\ savings = NoSavings

(***************************************************************************)
(* calculateCarbonCredits and the credit price                             *)
(***************************************************************************)
\* C12: for every emissionKg >= 0 calculateCarbonCredits returns
\* emissionKg / 1000 rounded to four decimals (a half rounded away from zero
\* or to even); calculateCarbonCredits(1000) = 1.
C12_CreditsAreEmissionPerThousand ==
    (Done("calculateCarbonCredits") /\ emission >= 0)
        => /\ error = ""
           /\ creditsNeeded \in {NumCredits(RoundHalfAway(emission, 10)),
                                 NumCredits(RoundHalfEven(emission, 10))}

\* C13: calculateCarbonCredits with emissionKg < 0 is rejected with an error;
\* it never returns a credit count.
C13_NegativeEmissionIsRejected ==
    (Done("calculateCarbonCredits") /\ emission < 0) => error # ""

\* C14: for every credits >= 0 the price operation returns min = credits * 50,
\* max = credits * 150 and average = (min + max) / 2, each rounded to two
\* decimals (a half rounded away from zero or to even), and the returned
\* average is the mean of the returned min and max.
C14_PriceRange ==
    (Done("estimateCreditPrice") /\ credits >= 0)
        => /\ error = ""
           /\ creditPrice.min \in {Num(RoundHalfAway(50 * credits, 100)),
                                   Num(RoundHalfEven(50 * credits, 100))}
           /\ creditPrice.max \in {Num(RoundHalfAway(150 * credits, 100)),
                                   Num(RoundHalfEven(150 * credits, 100))}
           /\ creditPrice.average \in {Num(RoundHalfAway(100 * credits, 100)),
                                       Num(RoundHalfEven(100 * credits, 100))}
           /\ 2 * Cents(creditPrice.average)
                  = Cents(creditPrice.min) + Cents(creditPrice.max)

\* C15: the price operation with credits < 0 is rejected with an error; it
\* never returns a price record.
C15_NegativeCreditsAreRejected ==
    (Done("estimateCreditPrice") /\ credits < 0) => error # ""

(***************************************************************************)
(* End to end                                                              *)
(***************************************************************************)
\* C16: for 451 km by car the emission is 54.12 kg, the credits needed are
\* 0.0541 and their price is {min: 2.71, max: 8.12, average: 5.41}.
C16_TorontoOttawaByCar ==
    (Done("performCalculations") /\ distanceKm = 45100 /\ transportMode = "car")
        => /\ error = ""
           /\ result = Num(5412)
           /\ creditsNeeded = NumCredits(541)
           /\ creditPrice =
                  [min |-> Num(271), max |-> Num(812), average |-> Num(541)]

\* the module pattern ran the calculations for 451 km by car: 54.12 kg of CO2
\* and no savings against the car
C16_TorontoOttawaCalculated ==
    /\ Done("performCalculations")
    /\ impl = "iife"
    /\ distanceKm = 45100
    /\ transportMode = "car"
    /\ error = ""
    /\ result = Num(5412)
    /\ savings = NoSavings
    /\ Len(results) = 4
    /\ creditsNeeded = NumCredits(541)

(***************************************************************************)
(* RoutesDB.findDistance                                                   *)
(***************************************************************************)
\* the table of the loaded variant
Routes(i) == IF i = "var" THEN VarRoutes ELSE IifeRoutes

\* the table stores a route from a to b, as written
Stored(i, a, b) ==
    \E n \in 1..Len(Routes(i)) :
        Routes(i)[n].origin = a /\ Routes(i)[n].destination = b

\* C17: findDistance is direction-agnostic: findDistance(cityA, cityB) and
\* findDistance(cityB, cityA) return the same value, a distance or null, also
\* when the table stores the pair in both directions
C17_DirectionAgnostic ==
    Done("findDistance") =>
        \E r \in {FindDistanceOf(impl, cityB, cityA)} :
            r.val = distance /\ r.err = error

\* a pair stored in both directions has been looked up and found
C17_StoredBothWaysFound ==
    /\ Done("findDistance")
    /\ Stored(impl, cityA, cityB)
    /\ Stored(impl, cityB, cityA)
    /\ distance = FromInt(230)

\* entry n of the table joins a and b, whatever their letter case and the
\* whitespace around them
Joins(i, n, a, b) ==
    {ToLowerCase(Routes(i)[n].origin), ToLowerCase(Routes(i)[n].destination)}
        = {ToLowerCase(Trim(a)), ToLowerCase(Trim(b))}

NoRouteJoins(i, a, b) == \A n \in 1..Len(Routes(i)) : ~Joins(i, n, a, b)

\* C18: for strings that match no route, the empty string among them,
\* findDistance returns null: not the number 0, and it does not throw
C18_NotFoundIsNull ==
    Done("findDistance") /\ NoRouteJoins(impl, cityA, cityB) =>
        distance = Null /\ distance # Zero /\ error = ""

\* the module pattern, which has no guard for it, was asked for the empty
\* string and a city of the table
C18_EmptyStringNotFound ==
    /\ Done("findDistance")
    /\ impl = "iife"
    /\ cityA = <<>>
    /\ cityB = City.Toronto
    /\ distance = Null

\* C19: whitespace in front of or behind either input and the letter case of
\* either input do not change what findDistance returns, and a distance
\* returned is the distanceKm stored with a route that joins the two cities
C19_NormalizationOnly ==
    Done("findDistance") =>
        /\ \A a \in Spellings(cityA) :
               FindDistanceOf(impl, a, cityB).val = distance
        /\ \A b \in Spellings(cityB) :
               FindDistanceOf(impl, cityA, b).val = distance
        /\ distance # Null =>
               \E n \in 1..Len(Routes(impl)) :
                   /\ Joins(impl, n, cityA, cityB)
                   /\ distance = FromInt(Routes(impl)[n].distanceKm)

\* " toronto, on " and "OTTAWA, ON" were looked up and the stored 451 returned
C19_RespelledRouteFound ==
    /\ Done("findDistance")
    /\ cityA = Padded(ToLowerCase(City.Toronto))
    /\ cityB = ToUpperCase(City.Ottawa)
    /\ distance = FromInt(451)

\* several entries of the table join a and b
SeveralJoin(i, a, b) ==
    Cardinality({n \in 1..Len(Routes(i)) : Joins(i, n, a, b)}) > 1

\* C20: when several entries of the table join the two cities, the search
\* stops at the one of the lowest index and findDistance returns the
\* distanceKm of that entry, in whichever direction the entry is stored
C20_EarliestEntryWins ==
    Done("findDistance") /\ SeveralJoin(impl, cityA, cityB) =>
        /\ routeIndex \in 1..Len(Routes(impl))
        /\ Joins(impl, routeIndex, cityA, cityB)
        /\ \A n \in 1..(routeIndex - 1) : ~Joins(impl, n, cityA, cityB)
        /\ distance = FromInt(Routes(impl)[routeIndex].distanceKm)

\* Seattle to Vancouver is entry 37 of the module pattern's table; the search
\* stopped at entry 11, Vancouver to Seattle
C20_ReverseEntryFirst ==
    /\ Done("findDistance")
    /\ impl = "iife"
    /\ cityA = City.Seattle
    /\ cityB = City.Vancouver
    /\ Routes(impl)[37].origin = cityA
    /\ Routes(impl)[37].destination = cityB
    /\ routeIndex = 11
    /\ Routes(impl)[routeIndex].origin = cityB
    /\ distance = FromInt(230)

\* a precedes b in the order of their UTF-16 code units: they first differ at
\* k, where a ends or has the lower code unit
Precedes(a, b) ==
    \E k \in 1..(Len(a) + 1) :
        /\ k <= Len(b)
        /\ \A j \in 1..(k - 1) : a[j] = b[j]
        /\ k <= Len(a) => CodeUnitOf[a[k]] < CodeUnitOf[b[k]]

\* the names the table of implementation i holds as an origin or a destination
NamesOf(i) ==
    {Routes(i)[n].origin : n \in 1..Len(Routes(i))}
        \cup {Routes(i)[n].destination : n \in 1..Len(Routes(i))}

\* C21: every call of getAllCities returns the names that occur as an origin
\* or a destination of the table, each of them once, in ascending order of
\* their code units; that list is unique, so every call returns the same one
C21_CitiesSortedEachOnce ==
    Done("getAllCities") =>
        /\ {cities[p] : p \in 1..Len(cities)} = NamesOf(impl)
        /\ \A p \in 1..(Len(cities) - 1) : Precedes(cities[p], cities[p + 1])

\* a second call has returned: Toronto, an origin of many entries and a
\* destination of others, is listed between the names next to it in the order
C21_SecondCallListsTorontoOnce ==
    /\ Done("getAllCities")
    /\ calls > 1
    /\ Cardinality({n \in 1..Len(Routes(impl)) :
                       Routes(impl)[n].origin = City.Toronto}) > 1
    /\ \E n \in 1..Len(Routes(impl)) :
           Routes(impl)[n].destination = City.Toronto
    /\ \E p \in 2..(Len(cities) - 1) :
           /\ cities[p] = City.Toronto
           /\ cities[p + 1] = City.Tucson \/ cities[p + 1] = City.Vancouver
           /\ Precedes(cities[p - 1], City.Toronto)

\* C22: whatever the handlers of the page have run (getAllCities at load, the
\* lookups of the autofill, the form's submissions and their calculations),
\* the routes array, CONFIG.EMISSION_FACTORS and CONFIG.CARBON_CREDIT hold
\* the contents they were loaded with
C22_TablesKeepInitialContents ==
    /\ routes = Routes(impl)
    /\ factors = EMISSION_FACTORS
    /\ carbonCredit = CARBON_CREDIT

\* the datalist was filled, the autofill found Toronto to Ottawa, and a
\* submission's calculations were shown
C22_AfterLookupAndCalculation ==
    /\ op = "page"
    /\ Len(cities) > 1
    /\ distanceInput = [value |-> <<"4", "5", "1">>, readOnly |-> TRUE]
    /\ ~manualCheckbox
    /\ distanceKm = 45100
    /\ error = ""
    /\ Len(results) = Len(Modes)
    /\ hidden = {}
    /\ routes = Routes(impl)

\* the form as handleFormSubmit would read it now passes the validation
FormIsValid ==
    ValidationOf(impl, FormValues(originInput, destinationInput,
                                  distanceInput.value, selectedModeInput)) = ""

\* C23: from the moment a submission passes validation until its callback has
\* run, the submit button is disabled, so the user starts no second
\* submission and at most one calculation callback is pending
C23_OneCallbackPending ==
    /\ Len(timers) <= 1
    /\ timers # <<>> => submitButton.disabled

\* a callback is pending while the form would pass validation again
C23_ValidFormWhileInFlight ==
    /\ Len(timers) = 1
    /\ submitButton.disabled
    /\ submitButton.innerHTML = Spinner
    /\ FormIsValid

\* the automatic lookup applies: the manual checkbox is unchecked and neither
\* city field is empty
LookupApplies ==
    /\ ~manualCheckbox
    /\ Trim(originInput) # <<>>
    /\ Trim(destinationInput) # <<>>

\* the two fields name a route of the table
RouteKnown == FindDistanceOf(impl, originInput, destinationInput).val # Null

\* the distance field reads km kilometres
FieldReads(input, km) ==
    /\ ~ParseFloat(input.value).nan
    /\ ParseFloat(input.value).centi = 100 * km

\* C24: a change event of the origin or the destination field, sent while the
\* manual checkbox is unchecked and both fields are non-empty and name a known
\* route, sets the distance field to findDistance(origin, destination) and
\* makes it read-only
C24_AutofillOnChange ==
    [][(OriginChange \/ DestinationChange) /\ LookupApplies /\ RouteKnown =>
          /\ distanceInput'.readOnly
          /\ FieldReads(distanceInput',
                        Routes(impl)[FindDistanceOf(impl, originInput,
                                                    destinationInput).index]
                            .distanceKm)]_vars

\* the object literal's page after its lookup of Toronto to " ottawa, on":
\* the field reads 451 and is locked
C24_TorontoOttawaFilled ==
    /\ impl = "var"
    /\ pc = "ready"
    /\ LookupApplies
    /\ RouteKnown
    /\ originInput = City.Toronto
    /\ distanceInput = [value |-> <<"4", "5", "1">>, readOnly |-> TRUE]

\* C25: a change event of the origin or the destination field, sent while the
\* manual checkbox is unchecked and both fields are non-empty and name no
\* route of the table, leaves the distance field empty and editable
C25_NoRouteLeavesFieldEditable ==
    [][(OriginChange \/ DestinationChange) /\ LookupApplies /\ ~RouteKnown =>
          distanceInput' = [value |-> <<>>, readOnly |-> FALSE]]_vars

\* C26: whenever the submit button is disabled, by a submission that passed
\* validation, its callback eventually runs and the button is enabled again,
\* whether the calculations and the rendering succeed or one of them throws
C26_ButtonEnabledAgain == submitButton.disabled ~> ~submitButton.disabled

\* a callback whose calculation threw has run: the button is enabled
C26_EnabledAfterThrow ==
    /\ error # ""
    /\ alerted = CalculationAlert(impl)
    /\ timers = <<>>
    /\ ~submitButton.disabled
    /\ submitButton.originalText = ButtonLabel

\* the form as handleFormSubmit would read it now is one the claim rejects: an
\* empty origin or destination, a distance that is NaN or not above zero, no
\* transport mode checked
FormIsInvalid ==
    \/ Trim(originInput) = <<>>
    \/ Trim(destinationInput) = <<>>
    \/ ParseFloat(distanceInput.value).nan
    \/ ParseFloat(distanceInput.value).centi <= 0
    \/ selectedModeInput = ""

\* C27: the submission of an invalid form schedules no callback, does not
\* enter the button's loading state and leaves the visibility of the three
\* sections as it was; so every callback calls the engine with a distance
\* above zero
C27_RejectedSubmissionChangesNothing ==
    [][/\ Submit /\ FormIsInvalid =>
             UNCHANGED <<timers, submitButton, hidden>>
       /\ TimerCallback => distanceKm' > 0]_vars

\* a submission with the distance "-1" was rejected while the results of an
\* earlier one are on display: they still are, and the button is as it was
C27_RejectedWithResultsShown ==
    /\ distanceInput.value = <<"-", "1">>
    /\ FormIsInvalid
    /\ alerted \in {DistanceAboveZero, EnterValidDistance}
    /\ timers = <<>>
    /\ hidden = {}
    /\ submitButton = [disabled |-> FALSE, innerHTML |-> ButtonLabel,
                       originalText |-> ButtonLabel]

\* C28: while a submission's callback is pending the results, comparison and
\* carbon-credits sections are hidden; a section becomes visible only in a
\* callback whose calculations and rendering completed without an error, and
\* a callback in which one threw leaves all three hidden
C28_SectionsShownOnlyOnSuccess ==
    [][/\ timers' # <<>> => hidden' = Sections
       /\ hidden \ hidden' # {} => TimerCallback /\ error' = ""
       /\ TimerCallback /\ error' # "" => hidden' = Sections]_vars

\* the results of one submission were shown, and the callback of a later
\* submission threw: nothing is on display
C28_HiddenAfterLaterThrow ==
    /\ Len(results) = Len(Modes)
    /\ creditPrice # NoPrice
    /\ error # ""
    /\ transportMode \notin ModeSet
    /\ timers = <<>>
    /\ hidden = Sections

\* C29: while the manual checkbox is checked the distance field is editable,
\* and the change and input events of the two city fields leave its value and
\* its read-only flag as they were; unchecking the box makes the field
\* read-only and then runs the automatic lookup on it
C29_ManualModeKeepsDistance ==
    [][/\ manualCheckbox' => ~distanceInput'.readOnly
       /\ manualCheckbox /\ (\/ OriginInput
                             \/ DestinationInput
                             \/ OriginChange
                             \/ DestinationChange)
             => distanceInput' = distanceInput
       /\ manualCheckbox /\ ManualCheckboxChange =>
             distanceInput' =
                 TryAutofillOf(impl, FALSE, originInput, destinationInput,
                               [distanceInput EXCEPT !.readOnly = TRUE])]_vars

\* the box is checked and the user's "0" stands in the field while the city
\* fields name Toronto to Ottawa, which the lookup would answer with 451
C29_TypedDistanceKept ==
    /\ manualCheckbox
    /\ distanceInput = [value |-> <<"0">>, readOnly |-> FALSE]
    /\ originInput = City.Toronto
    /\ RouteKnown
    /\ FindDistanceOf(impl, originInput, destinationInput).val = FromInt(451)

\* C30: after every calculation callback the submit button's content is the
\* content it had before the first submission, whatever submit events were
\* handled, one handled while an earlier submission is in flight included
C30_ButtonContentRestored ==
    [][TimerCallback => submitButton'.innerHTML = ButtonLabel]_vars

====
